---------------------------- MODULE Spec2Model ----------------------------
(***************************************************************************)
(* A model of the match simulation of the sandbox crate:                   *)
(*   sim.rs    - Sim::next, the ordered chain of rule providers (plugins)  *)
(*               and the pitch decision tree (do_pitch);                   *)
(*   events.rs - Event::apply, the state transition of every event kind,   *)
(*               and Events, the append-only tag log with its queries;     *)
(*   mods.rs   - Mods, the per-entity modifier collection.                 *)
(*                                                                         *)
(* A uniform draw of the RNG is modelled by the outcome of the comparison  *)
(* it is used in (a nondeterministic choice), together with a count of the *)
(* draws consumed.  Scores are kept in tenths of a run (a run is 10).      *)
(* Numeric player attributes are kept as one integer per player, the sum   *)
(* of the boosts applied to the player, in hundredths.                     *)
(***************************************************************************)
EXTENDS Integers, Sequences, FiniteSets, TLC

\* ------------------------------------------------------------------ bounds
\* The number of events a match without modifiers is followed for, and the
\* number a match with a modifier in play is followed for.
MaxEvents == 7
ShortEvents == 5
\* The number of entries a modifier collection is grown to.
MaxModEntries == 3
\* The number of events a match is followed for from a situation reached
\* by a given run of play.
FollowEvents == 3
\* ... and how many events are handed to apply from a recorded stream.
MaxFed == 3

\* ------------------------------------------------------ program constants
MaxOuts == 3
NoPlayer == 0

\* ------------------------------------------------------ mods.rs : Mods
\* A modifier collection is a Vec<ModWithLifetime>: a sequence of
\* <<the_mod, lifetime>> pairs.
ModLifetime == {"Game", "Week", "Season", "LegendaryItem", "Permanent"}

ModsNew == <<>>

ModsHas(ms, m) == \E i \in DOMAIN ms : ms[i][1] = m

\* An add that pushes without looking.
ModsAddAlways(ms, m, lifetime) == Append(ms, <<m, lifetime>>)

\* An add that compares the new entry with the newest entry only.
ModsAddUnlessLast(ms, m, lifetime) ==
    IF ms # <<>> /\ ms[Len(ms)] = <<m, lifetime>>
    THEN ms
    ELSE Append(ms, <<m, lifetime>>)

ModsAdd(ms, m, lifetime) ==
    IF \E i \in DOMAIN ms : ms[i] = <<m, lifetime>>
    THEN ms
    ELSE Append(ms, <<m, lifetime>>)

\* A remove that drops the oldest entry of the modifier only.
ModsRemoveFirst(ms, m) ==
    IF \E i \in DOMAIN ms : ms[i][1] = m
    THEN LET k == CHOOSE i \in DOMAIN ms :
                      ms[i][1] = m /\ \A j \in 1..(i - 1) : ms[j][1] # m
         IN  SubSeq(ms, 1, k - 1) \o SubSeq(ms, k + 1, Len(ms))
    ELSE ms

ModsRemove(ms, m) == SelectSeq(ms, LAMBDA x : x[1] # m)

ModsClearLifetime(ms, lifetime) == SelectSeq(ms, LAMBDA x : x[2] # lifetime)

ModsClearGame(ms) == ModsClearLifetime(ms, "Game")
\* A weekly clear that retains by the Game lifetime.
ModsClearWeeklyAsGame(ms) == ModsClearLifetime(ms, "Game")
ModsClearWeekly(ms) == ModsClearLifetime(ms, "Week")
ModsClearSeason(ms) == ModsClearLifetime(ms, "Season")
ModsClearLegendaryItem(ms) == ModsClearLifetime(ms, "LegendaryItem")

\* ------------------------------------------------------ events.rs : Events
\* The log is a Vec<String> of event tags (the variant names).
EventsNew == <<>>

\* A log that takes the new entry at its head instead.
EventsAddFront(evs, repr) == <<repr>> \o evs

EventsAdd(evs, repr) == Append(evs, repr)

EventsLen(evs) == Len(evs)

\* Events::last panics on an empty log; callers guard it.
EventsLast(evs) == evs[Len(evs)]

\* The tag an applied InningSwitch is logged under.
BoundaryTag == "InningSwitch"

\* The literal the three queries compare with to find a half-inning boundary.
BoundaryLiteral == "inningSwitch"

\* Events::has, one turn of the loop on entry ev: st holds the boundaries
\* crossed so far and, once the loop has returned, the value it returned.
HasStep(ev, s, limit, st) ==
    IF ev = s THEN [st EXCEPT !.returned = TRUE, !.value = TRUE]
    ELSE IF limit # -1 /\ ev = BoundaryLiteral
         THEN IF st.half_innings < limit
              THEN [st EXCEPT !.half_innings = @ + 1]
              ELSE [st EXCEPT !.returned = TRUE, !.value = FALSE]
         ELSE st

\* Events::has: the backward scan of the entries hi down to lo; the newer
\* half of the range is scanned first, then the older half from where that
\* scan stood (the order of the loop, nested to the logarithm of the length).
RECURSIVE HasScan(_, _, _, _, _, _)
HasScan(evs, s, limit, lo, hi, st) ==
    IF lo > hi \/ st.returned THEN st
    ELSE IF lo = hi THEN HasStep(evs[lo], s, limit, st)
    ELSE LET mid == (lo + hi) \div 2
             newer == HasScan(evs, s, limit, mid + 1, hi, st)
         IN  IF newer.returned THEN newer
             ELSE HasScan(evs, s, limit, lo, mid, newer)

EventsHas(evs, s, limit) ==
    HasScan(evs, s, limit, 1, Len(evs),
            [half_innings |-> 0, returned |-> FALSE, value |-> FALSE]).value

\* Events::count (the counter is a u8).
RECURSIVE CountScan(_, _, _, _, _, _)
CountScan(evs, s, limit, i, half_innings, counter) ==
    IF i = 0 THEN counter
    ELSE IF evs[i] = s
         THEN CountScan(evs, s, limit, i - 1, half_innings, (counter + 1) % 256)
    ELSE IF evs[i] = BoundaryLiteral /\ limit # -1
         THEN IF half_innings < limit
              THEN CountScan(evs, s, limit, i - 1, half_innings + 1, counter)
              ELSE counter
         ELSE CountScan(evs, s, limit, i - 1, half_innings, counter)

EventsCount(evs, s, limit) == CountScan(evs, s, limit, Len(evs), 0, 0)

\* Events::streak_multiple: strvec is a sequence of tags; an entry counts once
\* for every element of strvec it equals.
RECURSIVE StreakScan(_, _, _, _, _, _)
StreakScan(evs, strvec, limit, i, half_innings, counter) ==
    IF i = 0 THEN counter
    ELSE IF evs[i] = BoundaryLiteral /\ limit # -1
         THEN IF half_innings < limit
              THEN StreakScan(evs, strvec, limit, i - 1, half_innings + 1, counter)
              ELSE counter
         ELSE StreakScan(evs, strvec, limit, i - 1, half_innings,
                (counter + Cardinality({k \in DOMAIN strvec : strvec[k] = evs[i]})) % 256)

EventsStreakMultiple(evs, strvec, limit) ==
    StreakScan(evs, strvec, limit, Len(evs), 0, 0)


\* ------------------------------------------------------ Baserunners
\* The runners are a sequence of [id, base] entries in the order they came on
\* base.  Bases are numbered from 0; with `bases` bases the last index,
\* bases - 1, is home: a runner there has come round and is taken off by the
\* sweep (sim.rs:145-146: after a double with runners on [1, 0] "we're at
\* [3, 2], 3 *should* get swept").
BRNew == <<>>

BRAdd(rs, base, id) == Append(rs, [id |-> id, base |-> base])

BRRemove(rs, base) == SelectSeq(rs, LAMBDA r : r.base # base)

BROccupied(rs, base) == \E i \in DOMAIN rs : rs[i].base = base

BRContains(rs, id) == \E i \in DOMAIN rs : rs[i].id = id

BREmpty(rs) == Len(rs) = 0

BRLen(rs) == Len(rs)

BRAt(rs, base) ==
    IF BROccupied(rs, base)
    THEN rs[CHOOSE i \in DOMAIN rs :
              rs[i].base = base /\ \A j \in 1..(i - 1) : rs[j].base # base].id
    ELSE NoPlayer

BRCanAdvance(rs, base) == ~BROccupied(rs, base + 1)

BRAdvance(rs, base) ==
    [i \in DOMAIN rs |-> IF rs[i].base = base
                         THEN [rs[i] EXCEPT !.base = @ + 1] ELSE rs[i]]

BRAdvanceAll(rs, amount) ==
    [i \in DOMAIN rs |-> [rs[i] EXCEPT !.base = @ + amount]]

\* advance_if: the runners are visited in order; one whose id is in `ids`
\* moves up one base when the base ahead is free at that moment.
RECURSIVE AdvanceIfFrom(_, _, _)
AdvanceIfFrom(rs, ids, i) ==
    IF i > Len(rs) THEN rs
    ELSE IF rs[i].id \in ids /\ BRCanAdvance(rs, rs[i].base)
         THEN AdvanceIfFrom([rs EXCEPT ![i].base = @ + 1], ids, i + 1)
         ELSE AdvanceIfFrom(rs, ids, i + 1)

BRAdvanceIf(rs, ids) == AdvanceIfFrom(rs, ids, 1)

\* The forced advance that frees `base`: its occupant moves up one base,
\* after the base ahead has been freed the same way.
RECURSIVE BRForce(_, _)
BRForce(rs, base) ==
    IF ~BROccupied(rs, base) THEN rs
    ELSE BRAdvance(BRForce(rs, base + 1), base)

\* walk: the batter takes base 0.
BRWalk(rs) == BRForce(rs, 0)

\* walk_instincts: the batter takes base 1 (2 when `third`); every runner on
\* that base or behind it is forced past it, lead runner first.
RECURSIVE InstinctsFrom(_, _, _)
InstinctsFrom(rs, target, b) ==
    IF b < 0 THEN rs
    ELSE IF ~BROccupied(rs, b) THEN InstinctsFrom(rs, target, b - 1)
    ELSE LET freed == BRForce(rs, target + 1)
             moved == [i \in DOMAIN freed |->
                         IF freed[i].base = b
                         THEN [freed[i] EXCEPT !.base = target + 1]
                         ELSE freed[i]]
         IN  InstinctsFrom(moved, target, b - 1)

BRWalkInstincts(rs, third) ==
    LET target == IF third THEN 2 ELSE 1
    IN  InstinctsFrom(rs, target, target)

BRClear(rs) == <<>>

\* The set of occupied bases: what pick_runner and pick_runner_fc choose in.
BROccupiedBases(rs) == {rs[i].base : i \in DOMAIN rs}

BRIds(rs) == {rs[i].id : i \in DOMAIN rs}


\* ------------------------------------------------------ World and Game
\* The two sides of a match; a side's name also names its team.
Sides == {"home", "away"}

Other(side) == IF side = "home" THEN "away" ELSE "home"

\* Game.scoreboard: batting_team / pitching_team by the half.
BattingSide(g) == IF g.top THEN "away" ELSE "home"
PitchingSide(g) == IF g.top THEN "home" ELSE "away"

\* Game::batter (an Option, NoPlayer for None) and Game::pitcher.
Batter(g) == g.sb[BattingSide(g)].batter
Pitcher(g) == g.sb[PitchingSide(g)].pitcher

PlayerHas(w, p, m) == ModsHas(w.mods[p], m)
TeamHas(w, side, m) == ModsHas(w.teamMods[side], m)

\* Game::get_bases, get_max_balls, get_max_strikes: the standard 4 bases,
\* 4 balls and 3 strikes, changed by a modifier of the batting team.
GetBases(g, w) == IF TeamHas(w, BattingSide(g), "FifthBase") THEN 5 ELSE 4
GetMaxBalls(g, w) == IF TeamHas(w, BattingSide(g), "WalkInThePark") THEN 3 ELSE 4
GetMaxStrikes(g, w) == IF TeamHas(w, BattingSide(g), "FourthStrike") THEN 4 ELSE 3

\* Game::get_run_value and Player::get_run_value, in tenths of a run.
GameRunValue(g) == 10
PlayerRunValue(w, p) == 0

\* Game::score: every runner that has reached home counts as a run of the
\* batting side; a half-inning's scoring plays are counted.
RunnersHome(g, w) == {i \in DOMAIN g.runners : g.runners[i].base >= GetBases(g, w) - 1}

Score(g, w) ==
    LET n == Cardinality(RunnersHome(g, w))
    IN  [g EXCEPT !.sb[BattingSide(g)].score = @ + n * GameRunValue(g),
                  !.scoring_plays_inning = IF n > 0 THEN @ + 1 ELSE @,
                  !.calls = Append(@, "score")]

\* Game::base_sweep: the runners that reached home leave the bases.
BaseSweep(g, w) ==
    [g EXCEPT !.runners = SelectSeq(@, LAMBDA r : r.base < GetBases(g, w) - 1),
              !.calls = Append(@, "base_sweep")]

\* Game::end_pa: the at-bat ends: the count is reset, the batter leaves and
\* the batting side's order index moves on.
EndPa(g) ==
    [g EXCEPT !.balls = 0, !.strikes = 0,
              !.sb[BattingSide(g)].batter = NoPlayer,
              !.sb[BattingSide(g)].batter_index = @ + 1]

\* Game::assign_batter / assign_pitcher.
AssignBatter(g, p) == [g EXCEPT !.sb[BattingSide(g)].batter = p]
AssignPitcher(g, p) == [g EXCEPT !.sb[PitchingSide(g)].pitcher = p]

\* Player::boost: the boost vector is kept as its per-attribute amount.
Boost(w, p, amount) == [w EXCEPT !.attr[p] = @ + amount]

\* Game::pick_fielder: a member of the pitching side's lineup, by the roll.
Fielders(g, w) == {w.lineup[PitchingSide(g)][i] : i \in DOMAIN w.lineup[PitchingSide(g)]}

SeqSet(sq) == {sq[i] : i \in DOMAIN sq}

\* Game::pick_player_weighted: a player in play (either lineup or active
\* pitcher) that passes the filter, by the roll.
InPlay(g, w) ==
    SeqSet(w.lineup["home"]) \cup SeqSet(w.lineup["away"])
      \cup {g.sb["home"].pitcher, g.sb["away"].pitcher}

\* World::swap: two players trade places (roster slot and team).
SwapIn(sq, a, b) ==
    [i \in DOMAIN sq |-> IF sq[i] = a THEN b ELSE IF sq[i] = b THEN a ELSE sq[i]]

WorldSwap(w, a, b) ==
    [w EXCEPT !.lineup = [t \in Sides |-> SwapIn(w.lineup[t], a, b)],
              !.rotation = [t \in Sides |-> SwapIn(w.rotation[t], a, b)],
              !.shadows = [t \in Sides |-> SwapIn(w.shadows[t], a, b)],
              !.team = [@ EXCEPT ![a] = w.team[b], ![b] = w.team[a]]]

\* World::replace_player: the replacement takes the target's roster slot; the
\* target leaves its team.
ReplaceIn(sq, a, b) == [i \in DOMAIN sq |-> IF sq[i] = a THEN b ELSE sq[i]]

WorldReplacePlayer(w, target, repl) ==
    [w EXCEPT !.lineup = [t \in Sides |-> ReplaceIn(w.lineup[t], target, repl)],
              !.rotation = [t \in Sides |-> ReplaceIn(w.rotation[t], target, repl)],
              !.shadows = [t \in Sides |-> ReplaceIn(w.shadows[t], target, repl)],
              !.team = [@ EXCEPT ![repl] = w.team[target], ![target] = "none"]]

\* World::swap_hall: the target goes to the hall, the hall player takes its
\* roster slot.
WorldSwapHall(w, target, repl) ==
    [WorldReplacePlayer(w, target, repl) EXCEPT !.hall = ReplaceIn(@, repl, target)]

\* World::add_rolled_player: a new player joins the world under a fresh id.
FreshId(w) == w.nplayers + 1

WorldAddRolledPlayer(w, side) ==
    [w EXCEPT !.nplayers = @ + 1,
              !.mods = @ @@ (FreshId(w) :> ModsNew),
              !.feed = @ @@ (FreshId(w) :> EventsNew),
              !.attr = @ @@ (FreshId(w) :> 0),
              !.swept_on = @ @@ (FreshId(w) :> -1),
              !.scattered_letters = @ @@ (FreshId(w) :> 0),
              !.team = @ @@ (FreshId(w) :> side)]


\* ------------------------------------------------------ events.rs : Event::apply
WAddMod(w, p, m, lifetime) == [w EXCEPT !.mods[p] = ModsAdd(@, m, lifetime)]
WRemoveMod(w, p, m) == [w EXCEPT !.mods[p] = ModsRemove(@, m)]
WFeed(w, p, repr) == [w EXCEPT !.feed[p] = EventsAdd(@, repr)]

RECURSIVE WAddModAll(_, _, _, _)
WAddModAll(w, ps, m, lifetime) ==
    IF ps = <<>> THEN w
    ELSE WAddModAll(WAddMod(w, Head(ps), m, lifetime), Tail(ps), m, lifetime)

\* upgrade_spicy and downgrade_spicy, on the active batter.
UpgradeSpicy(g, w) ==
    LET b == Batter(g)
    IN  IF PlayerHas(w, b, "Spicy")
           /\ EventsStreakMultiple(w.feed[b], <<"BaseHit", "HomeRun">>, -1) = 1
        THEN WAddMod(w, b, "HeatingUp", "Permanent")
        ELSE IF PlayerHas(w, b, "HeatingUp")
        THEN WAddMod(WRemoveMod(w, b, "HeatingUp"), b, "RedHot", "Permanent")
        ELSE w

DowngradeSpicy(g, w) ==
    LET b == Batter(g)
    IN  IF PlayerHas(w, b, "RedHot") THEN WRemoveMod(w, b, "RedHot")
        ELSE IF PlayerHas(w, b, "HeatingUp") THEN WRemoveMod(w, b, "HeatingUp")
        ELSE w

\* The result of apply: the match, the world, and whether apply panicked.
Done(g, w) == [g |-> g, w |-> w, panic |-> FALSE]
Panicked(g, w) == [g |-> g, w |-> w, panic |-> TRUE]

\* The arms that call game.batter().unwrap() panic without an active batter.
NeedsBatter(tag) ==
    tag \in {"Strikeout", "CharmStrikeout", "Walk", "CharmWalk", "HomeRun", "BaseHit",
             "GroundOut", "Flyout", "DoublePlay", "FieldersChoice", "HitByPitch",
             "InstinctWalk", "MildWalk", "MagmaticHomeRun", "Beaned", "PouredOver"}

\* score, base_sweep, end_pa in a row: the tail of most plate-appearance arms.
ScoreSweep(g, w) == BaseSweep(Score(g, w), w)

\* A strikeout that ends the at-bat and leaves the count as it was.
ApplyStrikeoutKeepsCount(ev, g, w) ==
    Done([g EXCEPT !.outs = @ + 1,
                   !.sb[BattingSide(g)].batter = NoPlayer,
                   !.sb[BattingSide(g)].batter_index = @ + 1],
         WFeed(w, Batter(g), ev.tag))

\* A strikeout that counts for two outs.
ApplyStrikeoutTwice(ev, g, w) ==
    Done(EndPa([g EXCEPT !.outs = @ + 2]), WFeed(w, Batter(g), ev.tag))

ApplyStrikeout(ev, g, w) ==
    LET w1 == WFeed(w, Batter(g), ev.tag)
        triple_threat_active ==
            PlayerHas(w, Pitcher(g), "TripleThreat")
              /\ (g.balls = 3 \/ BROccupied(g.runners, 2) \/ BRLen(g.runners) = 3)
        g1 == IF triple_threat_active
              THEN [g EXCEPT !.sb[BattingSide(g)].score = @ - 3] ELSE g
    IN  Done(EndPa([g1 EXCEPT !.outs = @ + 1]), w1)

\* A walk that puts the batter on base and leaves the scoring routine out.
ApplyWalkNoScoring(ev, g, w) ==
    LET w1 == WFeed(w, Batter(g), ev.tag)
        g1 == [g EXCEPT !.runners = BRAdd(BRWalk(@), 0, Batter(g))]
    IN  Done(EndPa(g1), w1)

ApplyWalk(ev, g, w) ==
    LET w1 == WFeed(w, Batter(g), ev.tag)
        g1 == [g EXCEPT !.runners = BRAdd(BRWalk(@), 0, Batter(g))]
    IN  Done(EndPa(ScoreSweep(g1, w1)), w1)

ApplyHomeRun(ev, g, w) ==
    LET b == Batter(g)
        w1 == WFeed(w, b, ev.tag)
        w2 == IF ev.tag = "MagmaticHomeRun" THEN WRemoveMod(w1, b, "Magmatic") ELSE w1
        w3 == UpgradeSpicy(g, w2)
        no_runners_on == BREmpty(g.runners)
        g1 == Score([g EXCEPT !.runners = BRAdvanceAll(@, GetBases(g, w3))], w3)
        g2 == [g1 EXCEPT !.sb[BattingSide(g)].score =
                            @ + GameRunValue(g1) + PlayerRunValue(w3, b)]
        g3 == BaseSweep(g2, w3)
        g4 == IF no_runners_on
              THEN [g3 EXCEPT !.scoring_plays_inning = @ + 1] ELSE g3
    IN  Done(EndPa(g4), w3)

\* A hit that leaves the runners where they stood and only adds the batter.
ApplyBaseHitKeepsRunners(ev, g, w) ==
    LET batter == Batter(g)
        w1 == UpgradeSpicy(g, WFeed(w, batter, ev.tag))
        g1 == ScoreSweep(g, w1)
        g2 == [g1 EXCEPT !.runners = BRAdd(@, ev.bases - 1, batter)]
    IN  Done(EndPa(g2), w1)

\* A hit that works the runners' advance out again from the runners on base
\* when it is applied.
ApplyBaseHitRecomputes(ev, g, w) ==
    LET batter == Batter(g)
        w1 == UpgradeSpicy(g, WFeed(w, batter, ev.tag))
        g1 == ScoreSweep([g EXCEPT !.runners = BRAdvanceAll(@, ev.bases)], w1)
        g2 == [g1 EXCEPT !.runners = BRAdd(@, ev.bases - 1, batter)]
    IN  Done(EndPa(g2), w1)

ApplyBaseHit(ev, g, w) ==
    LET batter == Batter(g)
        w1 == UpgradeSpicy(g, WFeed(w, batter, ev.tag))
        g1 == ScoreSweep([g EXCEPT !.runners = ev.runners_after], w1)
        g2 == [g1 EXCEPT !.runners = BRAdd(@, ev.bases - 1, batter)]
    IN  Done(EndPa(g2), w1)

\* GroundOut and Flyout (one out), DoublePlay (two outs).
ApplyOut(ev, g, w, outs) ==
    LET w1 == DowngradeSpicy(g, WFeed(w, Batter(g), ev.tag))
        g1 == [g EXCEPT !.outs = @ + outs, !.runners = ev.runners_after]
    IN  Done(EndPa(ScoreSweep(g1, w1)), w1)

ApplyFieldersChoice(ev, g, w) ==
    LET w1 == DowngradeSpicy(g, WFeed(w, Batter(g), ev.tag))
        g1 == [g EXCEPT !.outs = @ + 1,
                        !.runners = BRAdd(ev.runners_after, 0, Batter(g))]
    IN  Done(EndPa(ScoreSweep(g1, w1)), w1)

\* A steal on which every runner moves up.
ApplyBaseStealAdvancesAll(ev, g, w) ==
    LET g1 == IF PlayerHas(w, ev.runner, "Blaserunning")
              THEN [g EXCEPT !.sb[BattingSide(g)].score = @ + 2] ELSE g
        g2 == [g1 EXCEPT !.runners = BRAdvanceAll(@, 1)]
    IN  Done(ScoreSweep(g2, w), w)

ApplyBaseSteal(ev, g, w) ==
    LET g1 == IF PlayerHas(w, ev.runner, "Blaserunning")
              THEN [g EXCEPT !.sb[BattingSide(g)].score = @ + 2] ELSE g
        g2 == [g1 EXCEPT !.runners = BRAdvance(@, ev.base_from)]
    IN  Done(ScoreSweep(g2, w), w)

ApplyCaughtStealing(ev, g, w) ==
    Done([g EXCEPT !.runners = BRRemove(@, ev.base_from), !.outs = @ + 1], w)

ApplyHitByPitch(ev, g, w) ==
    IF ev.hbp_type \notin {0, 1, 2} THEN Panicked(g, w)
    ELSE LET effect == CASE ev.hbp_type = 0 -> "Unstable"
                         [] ev.hbp_type = 1 -> "Flickering"
                         [] ev.hbp_type = 2 -> "Repeating"
             w1 == WAddMod(w, ev.target, effect, "Week")
             g1 == [g EXCEPT !.runners = BRAdd(BRWalk(@), 0, Batter(g))]
         IN  Done(EndPa(ScoreSweep(g1, w1)), w1)

ApplyInstinctWalk(ev, g, w) ==
    LET w1 == WFeed(w, Batter(g), ev.tag)
        g1 == [g EXCEPT !.runners = BRAdd(BRWalkInstincts(@, ev.third),
                                          IF ev.third THEN 2 ELSE 1, Batter(g))]
    IN  Done(EndPa(ScoreSweep(g1, w1)), w1)

ApplyMildPitch(ev, g, w) ==
    Done(ScoreSweep([g EXCEPT !.balls = @ + 1, !.runners = BRAdvanceAll(@, 1)], w), w)

ApplyMildWalk(ev, g, w) ==
    LET w1 == WFeed(w, Batter(g), ev.tag)
        g1 == [g EXCEPT !.runners = BRAdd(BRAdvanceAll(@, 1), 0, Batter(g))]
    IN  Done(EndPa(ScoreSweep(g1, w1)), w1)


\* An inning switch that leaves the runners on the bases.
ApplyInningSwitchKeepsRunners(ev, g, w) ==
    Done([g EXCEPT !.inning = ev.inning, !.top = ev.top, !.outs = 0,
                   !.balls = 0, !.strikes = 0, !.scoring_plays_inning = 0], w)

ApplyInningSwitch(ev, g, w) ==
    LET g1 == IF g.weather = "Salmon"
              THEN IF g.top
                   THEN LET runs_away == g.sb["away"].score - g.linescore_away[1]
                        IN  [g EXCEPT !.linescore_away =
                                [Append(@, runs_away) EXCEPT ![1] = @ + runs_away]]
                   ELSE LET runs_home == g.sb["home"].score - g.linescore_home[1]
                        IN  [g EXCEPT !.linescore_home =
                                [Append(@, runs_home) EXCEPT ![1] = @ + runs_home]]
              ELSE g
    IN  Done([g1 EXCEPT !.inning = ev.inning, !.top = ev.top, !.outs = 0,
                        !.balls = 0, !.strikes = 0, !.scoring_plays_inning = 0,
                        !.runners = BRNew], w)

ApplyGameOver(ev, g, w) ==
    LET home_wins == g.sb["home"].score > g.sb["away"].score
        winning_team == IF home_wins THEN "home" ELSE "away"
        losing_team == IF home_wins THEN "away" ELSE "home"
    IN  IF g.day < 99
        THEN Done(g, [w EXCEPT !.wins[winning_team] = @ + 1,
                               !.losses[losing_team] = @ + 1])
        ELSE Done(g, [w EXCEPT !.postseason_wins[winning_team] = @ + 1,
                               !.postseason_losses[losing_team] = @ + 1])

ApplyIncineration(ev, g, w) ==
    LET new_player == ev.replacement.fresh
        w1 == IF new_player THEN WorldAddRolledPlayer(w, w.team[ev.target]) ELSE w
        replacement_id == IF new_player THEN FreshId(w) ELSE ev.replacement.id
        g1 == IF Batter(g) # NoPlayer
              THEN IF Batter(g) = ev.target THEN AssignBatter(g, replacement_id) ELSE g
              ELSE IF ev.target = Pitcher(g) THEN AssignPitcher(g, replacement_id)
              ELSE IF ev.target = g.sb[BattingSide(g)].pitcher
                   THEN [g EXCEPT !.sb[BattingSide(g)].pitcher = replacement_id]
              ELSE g
        w2 == IF new_player THEN WorldReplacePlayer(w1, ev.target, replacement_id)
              ELSE WorldSwapHall(w1, ev.target, replacement_id)
        w3 == IF ev.chain # NoPlayer THEN WAddMod(w2, ev.chain, "Unstable", "Week") ELSE w2
    IN  Done(g1, w3)

ApplyFeedback(ev, g, w) ==
    LET g1 == IF Batter(g) # NoPlayer
              THEN IF Batter(g) = ev.target1 THEN AssignBatter(g, ev.target2)
                   ELSE AssignPitcher(g, ev.target2)
              ELSE g
        g2 == IF g1.sb[BattingSide(g)].pitcher = ev.target2
              THEN [g1 EXCEPT !.sb[BattingSide(g)].pitcher = ev.target1] ELSE g1
    IN  Done(g2, WorldSwap(w, ev.target1, ev.target2))

\* Team::apply_reverb_changes installs the reordered lineup and rotation the
\* event carries.
ApplyReverb(ev, g, w) ==
    LET w1 == [w EXCEPT !.lineup[ev.team] = ev.lineup, !.rotation[ev.team] = ev.rotation]
        rot == w1.rotation[ev.team]
        new_pitcher == rot[(g.day % Len(rot)) + 1]
    IN  IF ev.reverb_type # 3 /\ BattingSide(g) = ev.team
        THEN LET idx == g.sb[BattingSide(g)].batter_index
                 lu == w1.lineup[ev.team]
             IN  Done(AssignBatter(g, lu[(idx % Len(lu)) + 1]), w1)
        ELSE IF ev.reverb_type # 2
        THEN IF PitchingSide(g) = ev.team
             THEN Done(AssignPitcher(g, new_pitcher), w1)
             ELSE Done([g EXCEPT !.sb[BattingSide(g)].pitcher = new_pitcher], w1)
        ELSE Done(g, w1)

\* The boost a Blooddrain gives or takes: 0.1 on the attributes of one of the
\* four stat groups, nothing for any other stat code.
DrainAmount(stat) == IF stat \in {0, 1, 2, 3} THEN 10 ELSE 0

ApplyBlooddrain(ev, g, w) ==
    LET w_target(w0) == Boost(w0, ev.target, 0 - DrainAmount(ev.stat))
    IN  CASE ev.siphon_effect = -1 ->
                Done(g, w_target(Boost(w, ev.drainer, DrainAmount(ev.stat))))
          [] ev.siphon_effect = 0 -> Done([g EXCEPT !.outs = @ + 1], w_target(w))
          [] ev.siphon_effect = 1 -> Done([g EXCEPT !.outs = @ - 1], w_target(w))
          [] ev.siphon_effect = 2 -> Done([g EXCEPT !.balls = @ - 1], w_target(w))
          [] OTHER -> Panicked(g, w)

\* Sun2 and BlackHole: ten runs off the side's score; a win for it (Sun2) or
\* a win off the other side (BlackHole).
ApplySun2(ev, g, w) ==
    LET side == IF ev.home_team THEN "home" ELSE "away"
        g1 == [g EXCEPT !.sb[side].score = @ - 100]
    IN  IF g.day > 98
        THEN Done(g1, [w EXCEPT !.postseason_wins[side] = @ + 1])
        ELSE Done(g1, [w EXCEPT !.wins[side] = @ + 1])

ApplyBlackHole(ev, g, w) ==
    LET side == IF ev.home_team THEN "home" ELSE "away"
        g1 == [g EXCEPT !.sb[side].score = @ - 100]
    IN  IF g.day > 98
        THEN Done(g1, [w EXCEPT !.postseason_wins[Other(side)] = @ - 1])
        ELSE Done(g1, [w EXCEPT !.wins[Other(side)] = @ - 1])

\* A Salmon that takes the runs and leaves the half and the inning alone.
ApplySalmonKeepsTheHalf(ev, g, w) ==
    LET g1 == IF ~EventsHas(g.events, "Salmon", IF g.top THEN 3 ELSE 2)
              THEN [g EXCEPT !.salmon_resets_inning = 0] ELSE g
        ia == Len(g1.linescore_away) - g1.salmon_resets_inning
        ih == Len(g1.linescore_home) - g1.salmon_resets_inning
        bad == (ev.away_runs_lost /\ ia < 1) \/ (ev.home_runs_lost /\ ih < 1)
        g2 == IF ev.away_runs_lost /\ ia >= 1
              THEN [g1 EXCEPT !.sb["away"].score = @ - g1.linescore_away[ia]] ELSE g1
        g3 == IF ev.home_runs_lost /\ ih >= 1
              THEN [g2 EXCEPT !.sb["home"].score = @ - g1.linescore_home[ih]] ELSE g2
        g5 == [g3 EXCEPT !.salmon_resets_inning = @ + 1]
    IN  IF bad THEN Panicked(g, w) ELSE Done(g5, w)

\* Salmon: the log already ends with this event's own tag when has is asked.
ApplySalmon(ev, g, w) ==
    LET g1 == IF ~EventsHas(g.events, "Salmon", IF g.top THEN 3 ELSE 2)
              THEN [g EXCEPT !.salmon_resets_inning = 0] ELSE g
        ia == Len(g1.linescore_away) - g1.salmon_resets_inning
        ih == Len(g1.linescore_home) - g1.salmon_resets_inning
        bad == (ev.away_runs_lost /\ ia < 1) \/ (ev.home_runs_lost /\ ih < 1)
        g2 == IF ev.away_runs_lost /\ ia >= 1
              THEN [g1 EXCEPT !.sb["away"].score = @ - g1.linescore_away[ia]] ELSE g1
        g3 == IF ev.home_runs_lost /\ ih >= 1
              THEN [g2 EXCEPT !.sb["home"].score = @ - g1.linescore_home[ih]] ELSE g2
        g4 == IF ~g3.top THEN [g3 EXCEPT !.top = TRUE]
              ELSE [g3 EXCEPT !.inning = @ - 1]
        g5 == [g4 EXCEPT !.salmon_resets_inning = @ + 1]
    IN  IF bad THEN Panicked(g, w) ELSE Done(g5, w)

ApplyNightShift(ev, g, w) ==
    IF ev.batter
    THEN LET side == BattingSide(g)
             active_batter == g.sb[side].batter
             active_batter_order == (g.sb[side].batter_index % Len(w.lineup[side])) + 1
             w1 == [w EXCEPT !.lineup[side][active_batter_order] = ev.replacement,
                             !.shadows[side][ev.replacement_idx] = active_batter]
         IN  IF active_batter = NoPlayer THEN Panicked(g, w)
             ELSE Done(AssignBatter(g, ev.replacement),
                       Boost(w1, ev.replacement, ev.boosts))
    ELSE LET side == PitchingSide(g)
             active_pitcher == g.sb[side].pitcher
             w1 == [w EXCEPT !.rotation[side][1] = ev.replacement,
                             !.shadows[side][ev.replacement_idx] = active_pitcher]
         IN  Done(AssignPitcher(g, ev.replacement),
                  Boost(w1, ev.replacement, ev.boosts))


ApplyBeaned(ev, g, w) ==
    LET b == Batter(g)
    IN  IF PlayerHas(w, b, "Wired")
        THEN Done(g, WAddMod(WRemoveMod(w, b, "Wired"), b, "Tired", "Game"))
        ELSE IF PlayerHas(w, b, "Tired") THEN Done(g, WRemoveMod(w, b, "Tired"))
        ELSE Done(g, WAddMod(w, b, "Wired", "Game"))

ApplySwept(ev, g, w) ==
    LET flippers == {i \in DOMAIN g.runners : PlayerHas(w, g.runners[i].id, "Flippers")}
        \* each Flippers runner: its own run value plus one run
        gain == Cardinality(flippers) * (PlayerRunValue(w, NoPlayer) + 10)
        g1 == [g EXCEPT !.sb[BattingSide(g)].score = @ + gain,
                        !.runners = BRClear(@)]
        w1 == WAddModAll(w, ev.elsewhere, "Elsewhere", "Permanent")
        w2 == [w1 EXCEPT !.swept_on =
                 [p \in DOMAIN @ |-> IF p \in SeqSet(ev.elsewhere) THEN g.day ELSE @[p]]]
    IN  Done(g1, w2)

\* ElsewhereReturn: every returned player is back; the i-th returned player
\* with letters[i] > 0 is Scattered with that many letters.
RECURSIVE ScatterFrom(_, _, _, _)
ScatterFrom(w, returned, letters, i) ==
    IF i > Len(letters) THEN w
    ELSE IF letters[i] > 0
         THEN ScatterFrom([WAddMod(w, returned[i], "Scattered", "Permanent")
                             EXCEPT !.scattered_letters[returned[i]] = letters[i]],
                          returned, letters, i + 1)
         ELSE ScatterFrom(w, returned, letters, i + 1)

RECURSIVE ReturnAll(_, _)
ReturnAll(w, returned) ==
    IF returned = <<>> THEN w
    ELSE ReturnAll([WRemoveMod(w, Head(returned), "Elsewhere")
                      EXCEPT !.swept_on[Head(returned)] = -1], Tail(returned))

ApplyElsewhereReturn(ev, g, w) ==
    Done(g, ScatterFrom(ReturnAll(w, ev.returned), ev.returned, ev.letters, 1))

\* Unscatter: scattered_letters is a u8.
RECURSIVE UnscatterAll(_, _)
UnscatterAll(w, ps) ==
    IF ps = <<>> THEN w
    ELSE LET p == Head(ps)
             w1 == [w EXCEPT !.scattered_letters[p] = (@ - 1) % 256]
             w2 == IF w1.scattered_letters[p] = 0 THEN WRemoveMod(w1, p, "Scattered") ELSE w1
         IN  UnscatterAll(w2, Tail(ps))

\* An unscatter that takes a letter off and leaves the modifier on.
ApplyUnscatterKeepsMod(ev, g, w) ==
    Done(g, [w EXCEPT !.scattered_letters =
                [p \in DOMAIN @ |-> IF p \in SeqSet(ev.unscattered)
                                    THEN (@[p] - 1) % 256 ELSE @[p]]])

ApplyUnscatter(ev, g, w) == Done(g, UnscatterAll(w, ev.unscattered))

\* A return of the previous batter that takes the order back two places.
ApplyBatAgainTwoBack(ev, g, w) ==
    Done([g EXCEPT !.sb[BattingSide(g)].batter_index = @ - 2,
                   !.sb[BattingSide(g)].batter = ev.batter], w)

\* Reverberating and Repeating: the previous batter comes back.
ApplyBatAgain(ev, g, w) ==
    Done([g EXCEPT !.sb[BattingSide(g)].batter_index = @ - 1,
                   !.sb[BattingSide(g)].batter = ev.batter], w)

\* A zap that takes a strike and a ball at once.
ApplyZapTakesBoth(ev, g, w) == Done([g EXCEPT !.strikes = @ - 1, !.balls = @ - 1], w)

\* Zap: a strike off the batter's count, or a ball off it.
ApplyZap(ev, g, w) ==
    IF ev.batter THEN Done([g EXCEPT !.strikes = @ - 1], w)
    ELSE Done([g EXCEPT !.balls = @ - 1], w)

\* A no-effect event that ends the at-bat.
ApplyNoEffectEndsPa(ev, g, w) == Done(EndPa(g), w)

\* Birds, Fireproof, IffeyJr, BlockedDrain: arms with an empty body.
ApplyNoEffect(ev, g, w) == Done(g, w)

\* A foul that counts as a strike at any count.
ApplyFoulUncapped(ev, g, w) == Done([g EXCEPT !.strikes = @ + 1], w)

\* Foul: a strike, except that the count stays one short of the threshold.
ApplyFoul(ev, g, w) ==
    Done([g EXCEPT !.strikes =
            IF @ + 1 < GetMaxStrikes(g, w) - 1 THEN @ + 1
            ELSE GetMaxStrikes(g, w) - 1], w)

ApplyArm(ev, g, w) ==
    CASE ev.tag = "BatterUp" ->
            Done([AssignBatter(g, ev.batter) EXCEPT !.started = TRUE], w)
      [] ev.tag = "InningSwitch" -> ApplyInningSwitch(ev, g, w)
      [] ev.tag = "GameOver" -> ApplyGameOver(ev, g, w)
      [] ev.tag = "Ball" -> Done([g EXCEPT !.balls = @ + 1], w)
      [] ev.tag = "Strike" -> Done([g EXCEPT !.strikes = @ + 1], w)
      [] ev.tag = "Foul" -> ApplyFoul(ev, g, w)
      [] ev.tag \in {"Strikeout", "CharmStrikeout"} -> ApplyStrikeout(ev, g, w)
      [] ev.tag \in {"Walk", "CharmWalk"} -> ApplyWalk(ev, g, w)
      [] ev.tag \in {"HomeRun", "MagmaticHomeRun"} -> ApplyHomeRun(ev, g, w)
      [] ev.tag = "BaseHit" -> ApplyBaseHit(ev, g, w)
      [] ev.tag \in {"GroundOut", "Flyout"} -> ApplyOut(ev, g, w, 1)
      [] ev.tag = "DoublePlay" -> ApplyOut(ev, g, w, 2)
      [] ev.tag = "FieldersChoice" -> ApplyFieldersChoice(ev, g, w)
      [] ev.tag = "BaseSteal" -> ApplyBaseSteal(ev, g, w)
      [] ev.tag = "CaughtStealing" -> ApplyCaughtStealing(ev, g, w)
      [] ev.tag = "Party" -> Done(g, Boost(w, ev.target, ev.boosts))
      [] ev.tag = "Incineration" -> ApplyIncineration(ev, g, w)
      [] ev.tag = "Peanut" -> Done(g, Boost(w, ev.target, IF ev.yummy THEN 20 ELSE -20))
      [] ev.tag \in {"Birds", "Fireproof", "IffeyJr", "BlockedDrain"} ->
            ApplyNoEffect(ev, g, w)
      [] ev.tag = "Feedback" -> ApplyFeedback(ev, g, w)
      [] ev.tag = "Reverb" -> ApplyReverb(ev, g, w)
      [] ev.tag = "Blooddrain" -> ApplyBlooddrain(ev, g, w)
      [] ev.tag = "Sun2" -> ApplySun2(ev, g, w)
      [] ev.tag = "BlackHole" -> ApplyBlackHole(ev, g, w)
      [] ev.tag = "Salmon" -> ApplySalmon(ev, g, w)
      [] ev.tag = "PolaritySwitch" -> Done([g EXCEPT !.polarity = ~@], w)
      [] ev.tag = "NightShift" -> ApplyNightShift(ev, g, w)
      [] ev.tag = "Soundproof" -> Done(g, Boost(w, ev.tangled, ev.decreases))
      [] ev.tag \in {"Reverberating", "Repeating"} -> ApplyBatAgain(ev, g, w)
      [] ev.tag \in {"Shelled", "Elsewhere"} ->
            Done([g EXCEPT !.sb[BattingSide(g)].batter_index = @ + 1,
                           !.started = TRUE], w)
      [] ev.tag = "HitByPitch" -> ApplyHitByPitch(ev, g, w)
      [] ev.tag = "PeckedFree" ->
            Done(g, WAddMod(WRemoveMod(w, ev.player, "Shelled"),
                            ev.player, "Superallergic", "Permanent"))
      [] ev.tag = "Zap" -> ApplyZap(ev, g, w)
      [] ev.tag = "InstinctWalk" -> ApplyInstinctWalk(ev, g, w)
      [] ev.tag \in {"BigPeanut", "TasteTheInfinite"} ->
            Done(g, WAddMod(w, ev.target, "Shelled", "Permanent"))
      [] ev.tag = "MildPitch" -> ApplyMildPitch(ev, g, w)
      [] ev.tag = "MildWalk" -> ApplyMildWalk(ev, g, w)
      [] ev.tag = "FireEater" -> Done(g, WAddMod(w, ev.target, "Magmatic", "Permanent"))
      [] ev.tag = "CrowAmbush" -> Done(EndPa([g EXCEPT !.outs = @ + 1]), w)
      [] ev.tag = "Inhabiting" ->
            Done([AssignBatter(g, ev.inhabit) EXCEPT !.started = TRUE], w)
      [] ev.tag = "Performing" ->
            Done(g, WAddModAll(WAddModAll(w, ev.overperforming, "Overperforming", "Game"),
                               ev.underperforming, "Underperforming", "Game"))
      [] ev.tag = "Beaned" -> ApplyBeaned(ev, g, w)
      [] ev.tag = "PouredOver" -> Done(g, WAddMod(w, Batter(g), "FreeRefill", "Game"))
      [] ev.tag = "TripleThreat" ->
            Done(g, WAddMod(WAddMod(w, g.sb["home"].pitcher, "TripleThreat", "Permanent"),
                            g.sb["away"].pitcher, "TripleThreat", "Permanent"))
      [] ev.tag = "TripleThreatDeactivation" ->
            LET w1 == IF ev.home THEN WRemoveMod(w, g.sb["home"].pitcher, "TripleThreat") ELSE w
                w2 == IF ev.away THEN WRemoveMod(w1, g.sb["away"].pitcher, "TripleThreat") ELSE w1
            IN  Done(g, w2)
      [] ev.tag = "Swept" -> ApplySwept(ev, g, w)
      [] ev.tag = "ElsewhereReturn" -> ApplyElsewhereReturn(ev, g, w)
      [] ev.tag = "Unscatter" -> ApplyUnscatter(ev, g, w)

\* The history of the half: the runs the batting side gained by the arm that
\* ran are added to the runs of the half, which an InningSwitch starts anew.
ApplyRuns(ev, g, r) ==
    IF r.panic THEN r
    ELSE LET gained == r.g.sb[BattingSide(g)].score - g.sb[BattingSide(g)].score
         IN  Done([r.g EXCEPT !.half_runs =
                       IF ev.tag = "InningSwitch" THEN 0
                       ELSE IF gained > 0 THEN @ + gained ELSE @], r.w)

\* Event::apply: the tag goes to the log, then the arm of the event's kind
\* runs.  (update_multiplier_data, the cached snapshot of the modifiers, is a
\* function of the match and the world and holds no state of its own.)
Apply(ev, g, w) ==
    LET g0 == [g EXCEPT !.events = EventsAdd(@, ev.tag), !.calls = <<>>]
    IN  IF NeedsBatter(ev.tag) /\ Batter(g) = NoPlayer
        THEN Panicked(g0, w)
        ELSE CHOOSE x \in {ApplyRuns(ev, g, r) : r \in {ApplyArm(ev, g0, w)}} : TRUE


\* ------------------------------------------------------ sim.rs : the providers
\* A provider's tick yields a set of possible outcomes, one for every way its
\* RNG comparisons can fall: the event (NoEv for None), the number of draws
\* it consumed, the leaf of the pitch decision tree (BasePlugin only), and
\* whether it panicked.
NoEv == [tag |-> "None"]

\* How the rolls of do_pitch fell: the strike roll and the swing roll, and for
\* a hit the quadruple, triple and double rolls, each against its threshold.
\* A roll that was not drawn is FALSE.
NoRolls ==
    [is_strike |-> FALSE, does_swing |-> FALSE,
     quadruple |-> FALSE, triple |-> FALSE, double |-> FALSE]

Out(ev, n) == [ev |-> ev, n |-> n, pitch |-> "none", rolls |-> NoRolls, panic |-> FALSE]
OutNone(n) == Out(NoEv, n)
OutPanic(n) ==
    [ev |-> NoEv, n |-> n, pitch |-> "none", rolls |-> NoRolls, panic |-> TRUE]

\* The outcomes of `cond && rng.next() < threshold`: the draw is made only
\* when cond holds.  Each is <<value, draws>>.
AndRoll(cond) == IF cond THEN {<<TRUE, 1>>, <<FALSE, 1>>} ELSE {<<FALSE, 0>>}

FilterSeq(sq, Test(_)) == SelectSeq(sq, Test)

\* poll_for_mod: the players holding a_mod among home lineup, home pitcher,
\* away lineup, away pitcher, in that order.  "playing" narrows the batting
\* side to batter and runners and leaves its pitcher out; "all" takes whole
\* rotations.
RunnerIds(g) == [i \in DOMAIN g.runners |-> g.runners[i].id]

PollLineup(g, w, side, exclusion) ==
    IF BattingSide(g) = side /\ exclusion = "playing"
    THEN <<Batter(g)>> \o RunnerIds(g)
    ELSE w.lineup[side]

PollPitcher(g, w, side, exclusion) ==
    IF exclusion # "all"
    THEN IF BattingSide(g) = side /\ exclusion = "playing" THEN <<>>
         ELSE <<g.sb[side].pitcher>>
    ELSE w.rotation[side]

PollForMod(g, w, a_mod, exclusion) ==
    SelectSeq(PollLineup(g, w, "home", exclusion) \o PollPitcher(g, w, "home", exclusion)
                \o PollLineup(g, w, "away", exclusion) \o PollPitcher(g, w, "away", exclusion),
              LAMBDA p : PlayerHas(w, p, a_mod))

PregameTick(g, w) ==
    IF ~g.started
    THEN IF g.weather = "Coffee3" /\ ~EventsHas(g.events, "TripleThreat", -1)
         THEN {Out([tag |-> "TripleThreat"], 0)}
         ELSE LET superyummy == PollForMod(g, w, "Superyummy", "current")
                  perk == PollForMod(g, w, "Perk", "current")
                  over1 == IF Len(superyummy) > 0 /\ g.weather = "Peanuts"
                           THEN superyummy ELSE <<>>
                  under == IF Len(superyummy) > 0 /\ g.weather # "Peanuts"
                           THEN superyummy ELSE <<>>
                  over == IF Len(perk) > 0 /\ g.weather \in {"Coffee", "Coffee2", "Coffee3"}
                          THEN over1 \o perk ELSE over1
              IN  IF ~EventsHas(g.events, "Performing", -1)
                     /\ (Len(over) > 0 \/ Len(under) > 0)
                  THEN {Out([tag |-> "Performing", overperforming |-> over,
                             underperforming |-> under], 0)}
                  ELSE {OutNone(0)}
    ELSE {OutNone(0)}

\* A ninth inning whose bottom half ends the match whatever the scores, a
\* tie included.
InningStateTickEndsTies(g, w) ==
    IF g.outs < MaxOuts THEN {OutNone(0)}
    ELSE LET away == g.sb["away"].score
             home == g.sb["home"].score
             lead == IF away = home THEN 0 ELSE IF away > home THEN 1 ELSE -1
         IN  IF g.inning >= 9 /\ (lead = -1 \/ ~g.top)
             THEN {Out([tag |-> "GameOver"], 0)}
             ELSE IF g.top
             THEN {Out([tag |-> "InningSwitch", inning |-> g.inning, top |-> FALSE], 0)}
             ELSE {Out([tag |-> "InningSwitch", inning |-> g.inning + 1, top |-> TRUE], 0)}

\* An inning that only ends once the outs are past the maximum.
InningStateTickLate(g, w) ==
    IF g.outs <= MaxOuts THEN {OutNone(0)}
    ELSE {Out([tag |-> "InningSwitch", inning |-> g.inning, top |-> ~g.top], 0)}

InningStateTick(g, w) ==
    IF g.outs < MaxOuts THEN {OutNone(0)}
    ELSE LET away == g.sb["away"].score
             home == g.sb["home"].score
             \* scores are in tenths: a difference under 0.01 is no difference
             lead == IF away = home THEN 0 ELSE IF away > home THEN 1 ELSE -1
         IN  IF g.inning >= 9 /\ (lead = -1 \/ (~g.top /\ lead = 1))
             THEN {Out([tag |-> "GameOver"], 0)}
             ELSE IF g.top
             THEN {Out([tag |-> "InningSwitch", inning |-> g.inning, top |-> FALSE], 0)}
             ELSE {Out([tag |-> "InningSwitch", inning |-> g.inning + 1, top |-> TRUE], 0)}

SalmonEv(away, home) == [tag |-> "Salmon", home_runs_lost |-> home, away_runs_lost |-> away]

\* The Salmon half of InningEventPlugin, after n draws.
InningEventSalmon(g, w, n) ==
    IF g.weather # "Salmon" THEN {OutNone(n)}
    ELSE LET away_team_scored == g.linescore_away[Len(g.linescore_away)] # 0
             home_team_scored == IF ~g.top THEN FALSE
                                 ELSE g.linescore_home[Len(g.linescore_home)] # 0
         IN  IF EventsLen(g.events) > 0 /\ EventsLast(g.events) = "InningSwitch"
                /\ (away_team_scored \/ home_team_scored)
             THEN {OutNone(n + 1), Out(SalmonEv(FALSE, FALSE), n + 2)}
                    \cup (IF away_team_scored /\ home_team_scored
                          THEN {Out(SalmonEv(TRUE, TRUE), n + 3),
                                Out(SalmonEv(TRUE, FALSE), n + 4),
                                Out(SalmonEv(FALSE, TRUE), n + 4)}
                          ELSE IF away_team_scored
                          THEN {Out(SalmonEv(TRUE, FALSE), n + 2)}
                          ELSE {Out(SalmonEv(FALSE, TRUE), n + 2)})
             ELSE {OutNone(n)}

InningEventTick(g, w) ==
    IF ~EventsHas(g.events, "TripleThreatDeactivation", 1) /\ g.inning = 4 /\ g.top
    THEN UNION {UNION {
            IF h[1] \/ a[1]
            THEN {Out([tag |-> "TripleThreatDeactivation", home |-> h[1], away |-> a[1]],
                      h[2] + a[2])}
            ELSE InningEventSalmon(g, w, h[2] + a[2])
          : a \in AndRoll(PlayerHas(w, g.sb["away"].pitcher, "TripleThreat"))}
          : h \in AndRoll(PlayerHas(w, g.sb["home"].pitcher, "TripleThreat"))}
    ELSE InningEventSalmon(g, w, 0)

\* (idx - 1) % len on a usize: at idx = 0 the subtraction overflows (a panic
\* in a checked build, 2^64 - 1 in an unchecked one).
WrappedMinusOne(len) ==
    LET r == 65536 % len
        r2 == (r * r) % len
    IN  (((r2 * r2) % len) + len - 1) % len

PrevIndex(idx, len) == IF idx = 0 THEN WrappedMinusOne(len) + 1 ELSE ((idx - 1) % len) + 1

\* A batter selection that never yields.
BatterStateIdle(g, w) == {OutNone(0)}

BatterStateTick(g, w) ==
    IF Batter(g) # NoPlayer THEN {OutNone(0)}
    ELSE LET side == BattingSide(g)
             idx == g.sb[side].batter_index
             lineup == w.lineup[side]
             first_batter ==
                IF ~g.started THEN TRUE
                ELSE idx = 0 /\ g.inning = 1 /\ EventsLast(g.events) = "InningSwitch"
             inning_begin == ~first_batter /\ EventsLast(g.events) = "InningSwitch"
             prev == IF first_batter THEN lineup[1] ELSE lineup[PrevIndex(idx, Len(lineup))]
             batter == lineup[(idx % Len(lineup)) + 1]
             \* the selection of the batter at idx, after n draws
             select(n) ==
                IF PlayerHas(w, batter, "Shelled")
                THEN {Out([tag |-> "Shelled", batter |-> batter], n)}
                ELSE IF PlayerHas(w, batter, "Elsewhere")
                THEN {Out([tag |-> "Elsewhere", batter |-> batter], n)}
                ELSE IF PlayerHas(w, batter, "Haunted")
                THEN {Out([tag |-> "Inhabiting", batter |-> batter, inhabit |-> w.hall[i]], n + 2)
                        : i \in DOMAIN w.hall}
                       \cup {Out([tag |-> "BatterUp", batter |-> batter], n + 1)}
                ELSE {Out([tag |-> "BatterUp", batter |-> batter], n)}
             can_repeat == ~first_batter /\ ~inning_begin
             reverberating == can_repeat /\ PlayerHas(w, prev, "Reverberating")
             repeating(n) ==
                IF can_repeat /\ PlayerHas(w, prev, "Repeating")
                   /\ EventsLast(g.events) \in {"BaseHit", "HomeRun"}
                   /\ g.weather = "Reverb"
                THEN {Out([tag |-> "Repeating", batter |-> prev], n)}
                ELSE select(n)
         IN  (IF ~first_batter /\ idx = 0 THEN {OutPanic(0)} ELSE {})
             \cup (IF reverberating
                   THEN {Out([tag |-> "Reverberating", batter |-> prev], 1)} \cup repeating(1)
                   ELSE repeating(0))


\* roll_random_boosts: 25 draws (26 with the press attribute); the vector is
\* kept as one amount between base and base + threshold, in hundredths.
BoostDraws(exclude_press) == IF exclude_press THEN 25 ELSE 26

\* Weather::Eclipse.  incin_roll falls under 0.00045 (level 0), under 0.002
\* (level 1) or above (level 2).  k counts the fire eaters already rolled.
EclipseIncinerate(g, w, n, level) ==
    UNION {
      LET unstable_check == PlayerHas(w, target, "Unstable") /\ level <= 1
          regular_check == level = 0
          minimized == PollForMod(g, w, "Minimized", "all")
          \* the chain roll is drawn; the chain itself stays None
          n1 == IF unstable_check THEN n + 2 ELSE n + 1
      IN  IF ~(unstable_check \/ regular_check) THEN {OutNone(n + 1)}
          ELSE IF PlayerHas(w, target, "Fireproof")
          THEN {Out([tag |-> "Fireproof", target |-> target], n + 1)}
          \* team.unwrap() of a player who has left every team
          ELSE IF w.team[target] = "none" THEN {OutPanic(n + 1)}
          ELSE IF TeamHas(w, w.team[target], "Fireproof")
          THEN {Out([tag |-> "Fireproof", target |-> target], n + 1)}
          ELSE IF Len(minimized) > 1 THEN {OutPanic(n + 1)}
          ELSE IF Len(minimized) = 1 /\ w.team[target] = w.team[minimized[1]]
          THEN {Out([tag |-> "IffeyJr", target |-> target], n + 1)}
          ELSE IF PlayerHas(w, target, "Squiddish")
          THEN {Out([tag |-> "Incineration", target |-> target,
                     replacement |-> [id |-> w.hall[i], fresh |-> FALSE],
                     chain |-> NoPlayer], n1 + 1) : i \in DOMAIN w.hall}
          ELSE {Out([tag |-> "Incineration", target |-> target,
                     replacement |-> [id |-> NoPlayer, fresh |-> TRUE],
                     chain |-> NoPlayer], n1 + 1)}
      : target \in {p \in InPlay(g, w) : ~BRContains(g.runners, p)}}

WeatherEclipse(g, w) ==
    LET fire_eaters == PollForMod(g, w, "FireEater", "playing")
    IN  {Out([tag |-> "FireEater", target |-> fire_eaters[k]], 1 + k) : k \in DOMAIN fire_eaters}
          \cup UNION {EclipseIncinerate(g, w, 1 + Len(fire_eaters), level) : level \in 0..2}

WeatherPeanuts(g, w) ==
    {Out([tag |-> "BigPeanut", target |-> t], 2) : t \in InPlay(g, w)}
      \cup {Out([tag |-> "Peanut", target |-> t, yummy |-> FALSE], 3)
              : t \in {p \in InPlay(g, w) : ~BRContains(g.runners, p)}}
      \cup (IF PlayerHas(w, Batter(g), "HoneyRoasted")
            THEN {Out([tag |-> "TasteTheInfinite", target |-> f], 5) : f \in Fielders(g, w)}
                   \cup (IF PlayerHas(w, Pitcher(g), "HoneyRoasted")
                         THEN {Out([tag |-> "TasteTheInfinite", target |-> Batter(g)], 4),
                               OutNone(4)}
                         ELSE {OutNone(3)})
            ELSE IF PlayerHas(w, Pitcher(g), "HoneyRoasted")
            THEN {Out([tag |-> "TasteTheInfinite", target |-> Batter(g)], 3), OutNone(3)}
            ELSE {OutNone(2)})

\* Weather::Birds: the shelled players are rolled in turn.
WeatherBirds(g, w) ==
    LET shelled_players == PollForMod(g, w, "Shelled", "all")
    IN  {Out([tag |-> "Birds"], 1)}
          \cup {Out([tag |-> "PeckedFree", player |-> shelled_players[k]], 1 + k)
                  : k \in DOMAIN shelled_players}
          \cup {OutNone(1 + Len(shelled_players))}

\* Weather::Feedback.  feedback_roll falls under 0.0001 (level 0), under 0.02
\* (level 1), under 0.055 (level 2) or above (level 3).
FeedbackCheck(w, p, level) ==
    (PlayerHas(w, p, "SuperFlickering") /\ level <= 2)
      \/ (PlayerHas(w, p, "Flickering") /\ level <= 1)
      \/ level = 0

FeedbackEvent(w, target1, target2, n) ==
    IF PlayerHas(w, target1, "Soundproof")
    THEN {Out([tag |-> "Soundproof", resists |-> target1, tangled |-> target2,
               decreases |-> -3], n + BoostDraws(TRUE))}
    ELSE IF PlayerHas(w, target2, "Soundproof")
    THEN {Out([tag |-> "Soundproof", resists |-> target2, tangled |-> target1,
               decreases |-> -3], n + BoostDraws(TRUE))}
    ELSE {Out([tag |-> "Feedback", target1 |-> target1, target2 |-> target2], n)}

WeatherFeedback(g, w) ==
    UNION {
      IF is_batter
      THEN IF FeedbackCheck(w, Batter(g), level)
           THEN UNION {FeedbackEvent(w, Batter(g), f, 3) : f \in Fielders(g, w)}
           ELSE {OutNone(2)}
      ELSE IF FeedbackCheck(w, Pitcher(g), level)
           THEN UNION {FeedbackEvent(w, Pitcher(g), r, 3)
                         : r \in SeqSet(w.rotation[BattingSide(g)])}
           ELSE {OutNone(2)}
      : is_batter \in BOOLEAN, level \in 0..3}

\* Weather::Reverb.  The reordering Team::roll_reverb_changes rolls is kept as
\* its result: the lineup and the rotation turned by one place, where the
\* reverb type touches them (0 and 1 both, 2 the lineup, 3 the rotation).
TurnSeq(sq) == IF Len(sq) <= 1 THEN sq ELSE Tail(sq) \o <<Head(sq)>>

WeatherReverb(g, w) ==
    {OutNone(1)}
      \cup {Out([tag |-> "Reverb", reverb_type |-> t, team |-> side,
                 lineup |-> IF t # 3 THEN TurnSeq(w.lineup[side]) ELSE w.lineup[side],
                 rotation |-> IF t # 2 THEN TurnSeq(w.rotation[side]) ELSE w.rotation[side]],
                4)
              : t \in 0..3, side \in Sides}


\* Weather::Blooddrain.  The hitter a drain reaches: the batter, or with
\* runners on, the batter or a runner by one more roll.  Each is <<id, draws>>.
DrainHitters(g) ==
    IF BREmpty(g.runners) THEN {<<Batter(g), 0>>}
    ELSE {<<p, 1>> : p \in {Batter(g)} \cup BRIds(g.runners)}

\* drainer, target and the draws so far of every way the drain can fall.
DrainPairs(g, w, siphon, siphons) ==
    IF siphon
    THEN UNION {
           {[drainer |-> sp, n |-> 3,
             target |-> IF sp = Batter(g) THEN Pitcher(g) ELSE Batter(g)]}
             \cup (IF w.team[sp] = BattingSide(g)
                   THEN {[drainer |-> sp, target |-> f, n |-> 4] : f \in Fielders(g, w)}
                   ELSE {[drainer |-> sp, target |-> h[1], n |-> 4 + h[2]]
                           : h \in DrainHitters(g)})
           : sp \in SeqSet(siphons)}
    ELSE {[drainer |-> Pitcher(g), target |-> Batter(g), n |-> 3],
          [drainer |-> Batter(g), target |-> Pitcher(g), n |-> 3]}
           \cup UNION {{[drainer |-> f, target |-> h[1], n |-> 4 + h[2]],
                        [drainer |-> h[1], target |-> f, n |-> 4 + h[2]]}
                       : f \in Fielders(g, w), h \in DrainHitters(g)}

\* siphon_effect, by the effect roll: under 0.35 (level 0), under 0.5 (1),
\* under 0.8 (2) or above (3).  Without a siphon the roll is 0.0.
SiphonEffect(g, w, drainer, level) ==
    IF level = 0 THEN -1
    ELSE IF w.team[drainer] = BattingSide(g)
         THEN IF g.outs > 0 /\ level <= 1 THEN 1 ELSE -1
         ELSE IF g.balls > 0 /\ level <= 2 THEN 2 ELSE 0

WeatherBlooddrain(g, w) ==
    LET siphons == PollForMod(g, w, "Siphon", "playing")
        drains(siphon) ==
          UNION {
            IF TeamHas(w, w.team[d.target], "Sealant")
            THEN {Out([tag |-> "BlockedDrain", drainer |-> d.drainer, target |-> d.target], d.n)}
            ELSE {Out([tag |-> "Blooddrain", drainer |-> d.drainer, target |-> d.target,
                       stat |-> stat, siphon |-> siphon,
                       siphon_effect |-> SiphonEffect(g, w, d.drainer, level)],
                      d.n + (IF siphon THEN 2 ELSE 1))
                    : stat \in 0..3, level \in (IF siphon THEN 0..3 ELSE {0})}
            : d \in DrainPairs(g, w, siphon, siphons)}
    IN  {OutNone(1)} \cup drains(FALSE)
          \cup (IF Len(siphons) > 0 THEN drains(TRUE) ELSE {})

WeatherSun2(g, w, tag) ==
    IF g.sb["home"].score > 99 THEN {Out([tag |-> tag, home_team |-> TRUE], 0)}
    ELSE IF g.sb["away"].score > 99 THEN {Out([tag |-> tag, home_team |-> FALSE], 0)}
    ELSE {OutNone(0)}

WeatherNight(g, w) ==
    {OutNone(1)}
      \cup UNION {
             LET shadows == IF batter THEN w.shadows[BattingSide(g)]
                            ELSE w.shadows[PitchingSide(g)]
             IN  {Out([tag |-> "NightShift", batter |-> batter,
                       replacement |-> shadows[i], replacement_idx |-> i, boosts |-> 10],
                      3 + BoostDraws(FALSE)) : i \in DOMAIN shadows}
             : batter \in BOOLEAN}

\* The weathers that read the active batter panic without one.
WeatherNeedsBatter(weather) ==
    weather \in {"Eclipse", "Peanuts", "Feedback", "Blooddrain", "Coffee2"}

WeatherTick(g, w) ==
    IF WeatherNeedsBatter(g.weather) /\ Batter(g) = NoPlayer THEN {OutPanic(0)}
    ELSE CASE g.weather = "Eclipse" -> WeatherEclipse(g, w)
           [] g.weather = "Peanuts" -> WeatherPeanuts(g, w)
           [] g.weather = "Birds" -> WeatherBirds(g, w)
           [] g.weather = "Feedback" -> WeatherFeedback(g, w)
           [] g.weather = "Reverb" -> WeatherReverb(g, w)
           [] g.weather = "Blooddrain" -> WeatherBlooddrain(g, w)
           [] g.weather = "Sun2" -> WeatherSun2(g, w, "Sun2")
           [] g.weather = "BlackHole" -> WeatherSun2(g, w, "BlackHole")
           [] g.weather = "Coffee" -> {Out([tag |-> "Beaned"], 1), OutNone(1)}
           [] g.weather = "Coffee2" ->
                IF PlayerHas(w, Batter(g), "FreeRefill") THEN {OutNone(1)}
                ELSE {Out([tag |-> "PouredOver"], 1), OutNone(1)}
           [] g.weather \in {"PolarityPlus", "PolarityMinus"} ->
                {Out([tag |-> "PolaritySwitch"], 1), OutNone(1)}
           [] g.weather = "Night" -> WeatherNight(g, w)
           [] OTHER -> {OutNone(0)}


\* ElsewherePlugin.  A player's name has NameLen characters; a return after
\* more than 18 days rolls twice per character but the last.
NameLen == 3

\* The rolls over the players of ps that hold Elsewhere: who returned, with
\* how many letters, and the draws.
RECURSIVE ReturnRolls(_, _, _)
ReturnRolls(ps, g, w) ==
    IF ps = <<>> THEN {[returned |-> <<>>, letters |-> <<>>, n |-> 0, panic |-> FALSE]}
    ELSE LET p == Head(ps)
             rest == ReturnRolls(Tail(ps), g, w)
             long == g.day - w.swept_on[p] > 18
         IN  IF ~PlayerHas(w, p, "Elsewhere") THEN rest
             ELSE {[r EXCEPT !.n = @ + 1] : r \in rest}
                    \cup {[returned |-> <<p>> \o r.returned,
                           letters |-> <<l>> \o r.letters,
                           n |-> r.n + 1 + (IF long THEN 2 * (NameLen - 1) ELSE 0),
                           panic |-> r.panic \/ w.swept_on[p] = -1]
                            : r \in rest, l \in (IF long THEN 0..(NameLen - 1) ELSE {0})}

RECURSIVE UnscatterRolls(_, _)
UnscatterRolls(ps, w) ==
    IF ps = <<>> THEN {[unscattered |-> <<>>, n |-> 0]}
    ELSE LET p == Head(ps)
             rest == UnscatterRolls(Tail(ps), w)
         IN  IF ~PlayerHas(w, p, "Scattered") THEN rest
             ELSE {[r EXCEPT !.n = @ + 1] : r \in rest}
                    \cup {[unscattered |-> <<p>> \o r.unscattered, n |-> r.n + 1] : r \in rest}

\* The tag the Unscatter guard compares the last event with.
UnscatterGuardLiteral == "Unscattered"

ElsewhereTick(g, w) ==
    LET side == BattingSide(g)
        roster == w.lineup[side] \o w.rotation[side]
        unscatter(n) ==
          UNION {IF Len(u.unscattered) > 0
                    /\ EventsLast(g.events) # UnscatterGuardLiteral
                 THEN {Out([tag |-> "Unscatter", unscattered |-> u.unscattered], n + u.n)}
                 ELSE {OutNone(n + u.n)}
                 : u \in UnscatterRolls(roster, w)}
    IN  UNION {IF r.panic THEN {OutPanic(r.n)}
               ELSE IF Len(r.returned) > 0 /\ EventsLast(g.events) # "ElsewhereReturn"
               THEN {Out([tag |-> "ElsewhereReturn", returned |-> r.returned,
                          letters |-> r.letters], r.n)}
               ELSE unscatter(r.n)
               : r \in ReturnRolls(roster, g, w)}

PartyTick(g, w) ==
    {OutNone(1)}
      \cup UNION {
             IF w.partying[side]
             THEN {Out([tag |-> "Party", target |-> target,
                        boosts |-> IF PlayerHas(w, target, "LifeOfTheParty") THEN 7 ELSE 6],
                       3 + BoostDraws(TRUE))
                     : target \in SeqSet(w.lineup[side]) \cup SeqSet(w.rotation[side])}
             ELSE {OutNone(2)}
             : side \in Sides}

\* The subsequences of a sequence, in its order.
RECURSIVE SubSeqs(_)
SubSeqs(sq) ==
    IF sq = <<>> THEN {<<>>}
    ELSE LET rest == SubSeqs(Tail(sq))
         IN  rest \cup {<<Head(sq)>> \o r : r \in rest}

FloodingTick(g, w) ==
    IF g.weather = "Flooding"
    THEN {OutNone(1)}
           \cup {Out([tag |-> "Swept", elsewhere |-> e], 1 + Len(g.runners))
                   : e \in SubSeqs(RunnerIds(g))}
    ELSE {OutNone(0)}

\* A chain of `else if cond && rng.next() < threshold`: the first item whose
\* condition holds and whose roll falls under yields its event; a roll is
\* drawn for every item reached whose condition holds.
RECURSIVE ChainRolls(_, _)
ChainRolls(items, n) ==
    IF items = <<>> THEN {OutNone(n)}
    ELSE IF Head(items)[1]
         THEN {Out(Head(items)[2], n + 1)} \cup ChainRolls(Tail(items), n + 1)
         ELSE ChainRolls(Tail(items), n)

ModTick(g, w) ==
    IF Batter(g) = NoPlayer THEN {OutPanic(0)}
    ELSE
    LET batter == Batter(g)
        pitcher == Pitcher(g)
        hbp(t) == [tag |-> "HitByPitch", target |-> batter, hbp_type |-> t]
        first == ChainRolls(<<
            <<TeamHas(w, BattingSide(g), "Electric") /\ g.strikes > 0,
              [tag |-> "Zap", batter |-> TRUE]>>,
            <<TeamHas(w, PitchingSide(g), "Electric") /\ g.balls > 0,
              [tag |-> "Zap", batter |-> FALSE]>>,
            <<PlayerHas(w, pitcher, "DebtU") /\ ~PlayerHas(w, batter, "Unstable"), hbp(0)>>,
            <<PlayerHas(w, pitcher, "RefinancedDebt") /\ ~PlayerHas(w, batter, "Flickering"),
              hbp(1)>>,
            <<PlayerHas(w, pitcher, "ConsolidatedDebt") /\ ~PlayerHas(w, batter, "Repeating"),
              hbp(2)>>,
            <<PlayerHas(w, pitcher, "FriendOfCrows") /\ g.weather = "Birds",
              [tag |-> "CrowAmbush"]>> >>, 0)
        magmatic(o) ==
            IF o.ev.tag # "None" THEN {o}
            ELSE IF PlayerHas(w, batter, "Magmatic")
            THEN {Out([tag |-> "MagmaticHomeRun"], o.n + 1)}
            ELSE {o}
        clean_count(n) ==
            IF g.balls = 0 /\ g.strikes = 0
            THEN UNION {magmatic(o) : o \in ChainRolls(<<
                    <<PlayerHas(w, batter, "Charm"), [tag |-> "CharmWalk"]>>,
                    <<PlayerHas(w, pitcher, "Charm"), [tag |-> "CharmStrikeout"]>> >>, n)}
            ELSE {OutNone(n)}
        mild(n) ==
            (IF PlayerHas(w, pitcher, "Mild")
             THEN {Out([tag |-> IF g.balls = 3 THEN "MildWalk" ELSE "MildPitch"], n + 1)}
             ELSE {})
              \cup clean_count(n + 1)
    IN  UNION {IF o.ev.tag # "None" THEN {o} ELSE mild(o.n) : o \in first}

\* StealingPlugin: the bases are visited from the last one down, after the
\* draw that picks the defender.
RECURSIVE StealFrom(_, _, _)
StealFrom(g, base, n) ==
    IF base < 0 THEN {OutNone(n)}
    ELSE IF BRAt(g.runners, base) # NoPlayer /\ BRCanAdvance(g.runners, base)
         THEN {Out([tag |-> "BaseSteal", runner |-> BRAt(g.runners, base),
                    base_from |-> base, base_to |-> base + 1], n + 2),
               Out([tag |-> "CaughtStealing", runner |-> BRAt(g.runners, base),
                    base_from |-> base], n + 2)}
                \cup StealFrom(g, base - 1, n + 1)
         ELSE StealFrom(g, base - 1, n)

\* A provider that saves the defender roll when nobody is on base.
StealingTickSkipsEmptyBases(g, w) ==
    StealFrom(g, GetBases(g, w) - 1, IF BREmpty(g.runners) THEN 0 ELSE 1)

StealingTick(g, w) == StealFrom(g, GetBases(g, w) - 1, 1)


\* do_pitch: the outcome of the pitch with the draws it consumed.  Every
\* roll against a threshold may fall either way; the advancing runners are
\* any of the runners, in their order.
Pitch(kind, n) ==
    [pitch |-> kind, fielder |-> NoPlayer, advancing_runners |-> <<>>,
     runner_out |-> 0, n |-> n, rolls |-> NoRolls]

PitchAdvancing(kind, g, fielder, n) ==
    {[Pitch(kind, n + Len(g.runners)) EXCEPT !.fielder = fielder,
                                             !.advancing_runners = a]
       : a \in SubSeqs(RunnerIds(g))}

PitchRunnerOut(kind, g, n) ==
    {[Pitch(kind, n) EXCEPT !.runner_out = b] : b \in BROccupiedBases(g.runners)}

\* A ground ball that turns two whenever first base is occupied, whatever
\* the outs.
DoPitchGroundTurnsTwoAtAnyOuts(g, w) ==
    IF BROccupied(g.runners, 0)
    THEN PitchRunnerOut("DoublePlay", g, 11)
    ELSE {[Pitch("GroundOut", 9) EXCEPT !.fielder = f] : f \in Fielders(g, w)}

DoPitchGround(g, w) ==
    LET grounders(n) ==
          UNION {PitchAdvancing("GroundOut", g, f, n) : f \in Fielders(g, w)}
    IN  IF g.outs = 2
        THEN {[Pitch("GroundOut", 9) EXCEPT !.fielder = f] : f \in Fielders(g, w)}
        ELSE IF ~BREmpty(g.runners)
        THEN IF BROccupied(g.runners, 0)
             THEN (IF g.outs < 2 THEN PitchRunnerOut("DoublePlay", g, 11) ELSE {})
                    \cup grounders(11)
                    \cup PitchRunnerOut("FieldersChoice", g, 11)
             ELSE grounders(10)
        ELSE {[Pitch("GroundOut", 9) EXCEPT !.fielder = f] : f \in Fielders(g, w)}

\* A fly out on which the runners roll for their advance at any out count.
DoPitchFlyAlwaysRolls(g, w) ==
    UNION {PitchAdvancing("Flyout", g, f, 8) : f \in Fielders(g, w)}

DoPitchFly(g, w) ==
    IF g.outs = 2
    THEN {[Pitch("Flyout", 8) EXCEPT !.fielder = f] : f \in Fielders(g, w)}
    ELSE UNION {PitchAdvancing("Flyout", g, f, 8) : f \in Fielders(g, w)}

\* The class of a hit, from the rolls already drawn: the double is looked at
\* first.
HitClassDoubleFirst(quadruple, triple, double) ==
    IF double THEN "Double"
    ELSE IF triple THEN "Triple"
    ELSE IF quadruple THEN "Quadruple"
    ELSE "Single"

\* The class of a hit, from the rolls already drawn.
HitClass(quadruple, triple, double) ==
    IF quadruple THEN "Quadruple"
    ELSE IF triple THEN "Triple"
    ELSE IF double THEN "Double"
    ELSE "Single"

\* The hit branch: the defender roll, the double roll, the triple roll, in
\* 5-base mode the quadruple roll (else quadruple_roll is 1.0, under no
\* threshold), then a roll per runner; then the class.
DoPitchHit(g, w) ==
    LET n == IF GetBases(g, w) = 5 THEN 11 ELSE 10
    IN  UNION {{[p EXCEPT !.rolls.quadruple = q, !.rolls.triple = t, !.rolls.double = d]
                  : p \in PitchAdvancing(HitClass(q, t, d), g, NoPlayer, n)}
                 : q \in (IF GetBases(g, w) = 5 THEN BOOLEAN ELSE {FALSE}),
                   t \in BOOLEAN, d \in BOOLEAN}

\* A pitch at which a flinching batter swings like any other.
DoPitchFlinchSwings(g, w) ==
    {[Pitch("StrikeLooking", 2) EXCEPT !.rolls.is_strike = TRUE], Pitch("Ball", 2)}
      \cup {[p EXCEPT !.rolls.is_strike = s, !.rolls.does_swing = TRUE]
              : p \in {Pitch("StrikeSwinging", 3), Pitch("Foul", 4), Pitch("HomeRun", 7)}
                        \cup DoPitchFly(g, w) \cup DoPitchGround(g, w)
                        \cup DoPitchHit(g, w),
                s \in BOOLEAN}

\* do_pitch: the strike roll, then (unless the batter flinches) the swing
\* roll; a pitch not swung at is a looking strike or a ball by the strike
\* roll; a pitch swung at goes on to contact, foul, out and hit, whatever the
\* strike roll was.
DoPitch(g, w) ==
    LET is_flinching == g.strikes = 0 /\ PlayerHas(w, Batter(g), "Flinch")
        taken == IF is_flinching THEN 1 ELSE 2
    IN  {[Pitch("StrikeLooking", taken) EXCEPT !.rolls.is_strike = TRUE],
         Pitch("Ball", taken)}
          \cup (IF is_flinching THEN {}
                ELSE {[p EXCEPT !.rolls.is_strike = s, !.rolls.does_swing = TRUE]
                        : p \in {Pitch("StrikeSwinging", 3), Pitch("Foul", 4),
                                 Pitch("HomeRun", 7)}
                                  \cup DoPitchFly(g, w) \cup DoPitchGround(g, w)
                                  \cup DoPitchHit(g, w),
                          s \in BOOLEAN})

HitBases(kind) ==
    CASE kind = "Single" -> 1
      [] kind = "Double" -> 2
      [] kind = "Triple" -> 3
      [] kind = "Quadruple" -> 4

\* BasePlugin::tick: the event made of the pitch outcome.
\* A last strike that is only seen one strike late.
LastStrikeLate(g, w) == g.strikes + 1 > GetMaxStrikes(g, w)

\* last_strike: one more strike reaches the threshold.
LastStrike(g, w) == g.strikes + 1 >= GetMaxStrikes(g, w)

BaseEvent(o, g, w) ==
    LET last_strike == LastStrike(g, w)
        advancing == SeqSet(o.advancing_runners)
        ev(e) == {[ev |-> e, n |-> o.n, pitch |-> o.pitch, rolls |-> o.rolls,
                   panic |-> FALSE]}
    IN  CASE o.pitch = "Ball" ->
               IF g.balls + 1 < GetMaxBalls(g, w) THEN ev([tag |-> "Ball"])
               ELSE IF PlayerHas(w, Batter(g), "BaseInstincts")
                    THEN {[ev |-> [tag |-> "InstinctWalk", third |-> third],
                           n |-> o.n + 3, pitch |-> o.pitch, rolls |-> o.rolls,
                           panic |-> FALSE]
                            : third \in BOOLEAN}
                           \cup {[ev |-> [tag |-> "Walk"], n |-> o.n + 1,
                                  pitch |-> o.pitch, rolls |-> o.rolls,
                                  panic |-> FALSE]}
                    ELSE ev([tag |-> "Walk"])
          [] o.pitch = "StrikeSwinging" ->
               ev([tag |-> IF last_strike THEN "Strikeout" ELSE "Strike"])
          [] o.pitch = "StrikeLooking" ->
               IF last_strike
               THEN IF TeamHas(w, BattingSide(g), "ONo") /\ g.balls = 0
                    THEN ev([tag |-> "Foul"])
                    ELSE ev([tag |-> "Strikeout"])
               ELSE ev([tag |-> "Strike"])
          [] o.pitch = "Foul" -> ev([tag |-> "Foul"])
          [] o.pitch \in {"GroundOut", "Flyout"} ->
               ev([tag |-> o.pitch, fielder |-> o.fielder,
                   runners_after |-> BRAdvanceIf(g.runners, advancing)])
          [] o.pitch \in {"DoublePlay", "FieldersChoice"} ->
               ev([tag |-> o.pitch,
                   runners_after |-> BRAdvanceAll(BRRemove(g.runners, o.runner_out), 1)])
          [] o.pitch = "HomeRun" -> ev([tag |-> "HomeRun"])
          [] OTHER ->
               ev([tag |-> "BaseHit", bases |-> HitBases(o.pitch),
                   runners_after |->
                     BRAdvanceIf(BRAdvanceAll(g.runners, HitBases(o.pitch)), advancing)])

BaseTick(g, w) ==
    IF Batter(g) = NoPlayer THEN {OutPanic(0)}
    ELSE UNION {BaseEvent(o, g, w) : o \in DoPitch(g, w)}


\* ------------------------------------------------------ sim.rs : Sim
\* Sim::new: the providers, in the order they are consulted.
\* The providers with the pitch consulted before the steal.
PluginsPitchFirst ==
    <<"Pregame", "InningState", "InningEvent", "BatterState", "Weather", "Elsewhere",
      "Party", "Flooding", "Mod", "Base", "Stealing">>

Plugins ==
    <<"Pregame", "InningState", "InningEvent", "BatterState", "Weather", "Elsewhere",
      "Party", "Flooding", "Mod", "Stealing", "Base">>

\* Plugin::tick of the named provider.
Tick(name, g, w) ==
    CASE name = "Pregame" -> PregameTick(g, w)
      [] name = "InningState" -> InningStateTick(g, w)
      [] name = "InningEvent" -> InningEventTick(g, w)
      [] name = "BatterState" -> BatterStateTick(g, w)
      [] name = "Weather" -> WeatherTick(g, w)
      [] name = "Elsewhere" -> ElsewhereTick(g, w)
      [] name = "Party" -> PartyTick(g, w)
      [] name = "Flooding" -> FloodingTick(g, w)
      [] name = "Mod" -> ModTick(g, w)
      [] name = "Stealing" -> StealingTick(g, w)
      [] name = "Base" -> BaseTick(g, w)

\* What one call of Sim::next did: the event it returned (NoEv when it
\* panicked), the provider that yielded it, the providers consulted in order
\* with the draws each consumed, the leaf of the pitch decision tree, and the
\* panic: "none", "plugin" (inside a provider) or "uhhh" (no provider
\* yielded).
Ticked(ev, winner, evaluated, draws, pitch, rolls, panic) ==
    [ev |-> ev, winner |-> winner, evaluated |-> evaluated, draws |-> draws,
     pitch |-> pitch, rolls |-> rolls, panic |-> panic]

Idle == Ticked(NoEv, "none", <<>>, <<>>, "none", NoRolls, "none")

\* Sim::next from the i-th provider on.
RECURSIVE NextFrom(_, _, _, _, _)
NextFrom(i, g, w, evaluated, draws) ==
    IF i > Len(Plugins)
    THEN {Ticked(NoEv, "none", evaluated, draws, "none", NoRolls, "uhhh")}
    ELSE LET name == Plugins[i]
             seen == Append(evaluated, name)
         IN  UNION {
               IF o.panic
               THEN {Ticked(NoEv, name, seen, Append(draws, o.n), "none", NoRolls,
                            "plugin")}
               ELSE IF o.ev.tag # "None"
               THEN {Ticked(o.ev, name, seen, Append(draws, o.n), o.pitch, o.rolls,
                            "none")}
               ELSE NextFrom(i + 1, g, w, seen, Append(draws, o.n))
               : o \in Tick(name, g, w)}

SimNext(g, w) == NextFrom(1, g, w, <<>>, <<>>)

\* The draws of a tick, all providers together.
RECURSIVE SumSeq(_)
SumSeq(sq) == IF sq = <<>> THEN 0 ELSE Head(sq) + SumSeq(Tail(sq))

TickDraws(t) == SumSeq(t.draws)


\* ------------------------------------------------------ the state machine
VARIABLES
    game,     \* the Game
    world,    \* the World: players, teams, rosters
    pending,  \* what the last Sim::next returned and has not been applied yet
    replay,   \* a second match and world, built alike, to which the recorded
              \* events are re-applied
    budget,   \* the number of events this match is followed for
    mods,     \* a Mods collection of its own, for the operations of mods.rs
    modsOp    \* the last operation on mods

vars == <<game, world, pending, replay, budget, mods, modsOp>>

\* The rosters every match starts from: two teams of four hitters, one
\* pitcher and one shadow, and one player in the hall.
Lineups == [away |-> <<1, 2, 3, 4>>, home |-> <<7, 8, 9, 10>>]
Rotations == [away |-> <<5>>, home |-> <<11>>]
Shadows == [away |-> <<6>>, home |-> <<12>>]
Hall == <<13>>
NumPlayers == 13

TeamOf(p) ==
    IF p \in SeqSet(Lineups["away"] \o Rotations["away"] \o Shadows["away"]) THEN "away"
    ELSE IF p \in SeqSet(Lineups["home"] \o Rotations["home"] \o Shadows["home"]) THEN "home"
    ELSE "none"

NewWorld ==
    [mods |-> [p \in 1..NumPlayers |-> ModsNew],
     teamMods |-> [t \in Sides |-> ModsNew],
     lineup |-> Lineups, rotation |-> Rotations, shadows |-> Shadows,
     team |-> [p \in 1..NumPlayers |-> TeamOf(p)],
     feed |-> [p \in 1..NumPlayers |-> EventsNew],
     attr |-> [p \in 1..NumPlayers |-> 50],
     swept_on |-> [p \in 1..NumPlayers |-> -1],
     scattered_letters |-> [p \in 1..NumPlayers |-> 0],
     hall |-> Hall, nplayers |-> NumPlayers,
     wins |-> [t \in Sides |-> 0], losses |-> [t \in Sides |-> 0],
     postseason_wins |-> [t \in Sides |-> 0], postseason_losses |-> [t \in Sides |-> 0],
     partying |-> [t \in Sides |-> FALSE]]

\* Game::new: the top of the first inning, nothing played, the first pitcher
\* of each rotation on the mound.  Two fields are a history of the match and
\* no field of Game: calls, the routines of Game the last apply called, in
\* the order of the calls, and half_runs, the runs the batting side has
\* scored in the half-inning so far (tenths of a run).
NewGame(weather, w) ==
    [inning |-> 1, top |-> TRUE, outs |-> 0, balls |-> 0, strikes |-> 0,
     weather |-> weather, polarity |-> FALSE, day |-> 0,
     scoring_plays_inning |-> 0, salmon_resets_inning |-> 0,
     linescore_home |-> <<0>>, linescore_away |-> <<0>>,
     runners |-> BRNew, events |-> EventsNew, started |-> FALSE,
     calls |-> <<>>, half_runs |-> 0,
     sb |-> [t \in Sides |->
               [score |-> 0, batter |-> NoPlayer, pitcher |-> w.rotation[t][1],
                batter_index |-> 0]]]

\* The modifiers a match starts with: <<player, modifier>> and
\* <<side, modifier>> pairs, all permanent.
RECURSIVE WithPlayerMods(_, _)
WithPlayerMods(w, pairs) ==
    IF pairs = <<>> THEN w
    ELSE WithPlayerMods(WAddMod(w, Head(pairs)[1], Head(pairs)[2], "Permanent"), Tail(pairs))

RECURSIVE WithTeamMods(_, _)
WithTeamMods(w, pairs) ==
    IF pairs = <<>> THEN w
    ELSE WithTeamMods([w EXCEPT !.teamMods[Head(pairs)[1]] =
                          ModsAdd(@, Head(pairs)[2], "Permanent")], Tail(pairs))

\* The matches followed: the weather, the modifiers in play, and how many
\* events of it are followed.
Setup(weather, pmods, tmods, events) ==
    [weather |-> weather, pmods |-> pmods, tmods |-> tmods, events |-> events]

Setups ==
    {Setup("Sun", <<>>, <<>>, MaxEvents),
     Setup("Sun", <<<<1, "Reverberating">>>>, <<>>, ShortEvents),
     Setup("Sun", <<<<11, "Mild">>>>, <<>>, ShortEvents),
     Setup("Sun", <<>>, <<<<"away", "ONo">>>>, ShortEvents)}

SetupWorld(s) == WithTeamMods(WithPlayerMods(NewWorld, s.pmods), s.tmods)

\* An operation on the Mods collection: its name, its arguments and the
\* number of entries it dropped.
ModsOp(op, m, lifetime, dropped) ==
    [op |-> op, m |-> m, lifetime |-> lifetime, dropped |-> dropped]

NoModsOp == ModsOp("new", "none", "none", 0)

Init ==
    \E s \in Setups :
        /\ world = SetupWorld(s)
        /\ game = NewGame(s.weather, SetupWorld(s))
        /\ pending = Idle
        /\ replay = [g |-> NewGame(s.weather, SetupWorld(s)), w |-> SetupWorld(s)]
        /\ budget = s.events
        /\ mods = ModsNew
        /\ modsOp = NoModsOp

\* An apply that draws once from the Rng.
ApplyDrawsOnce(ev, g, w) == 1

\* Event::apply takes the event, the match and the world, and no Rng: the
\* draws it makes.
ApplyDraws(ev, g, w) == 0

\* Sim::next: the providers are consulted on the match as it stands.
NextStep ==
    /\ pending = Idle
    /\ EventsLen(game.events) < budget
    /\ pending' \in SimNext(game, world)
    /\ UNCHANGED <<game, world, replay, budget, mods, modsOp>>

\* Event::apply of the event Sim::next returned; the same event is applied
\* to the replayed match.  A panic leaves the match where it stopped.
ApplyStep ==
    /\ pending.panic = "none"
    /\ pending.ev # NoEv
    /\ LET r == Apply(pending.ev, game, world)
           rr == Apply(pending.ev, replay.g, replay.w)
       IN  IF r.panic
           THEN /\ pending' = [pending EXCEPT !.panic = "apply"]
                /\ UNCHANGED <<game, world, replay>>
           ELSE /\ game' = r.g
                /\ world' = r.w
                /\ replay' = [g |-> rr.g, w |-> rr.w]
                /\ pending' = Idle
    /\ UNCHANGED <<budget, mods, modsOp>>

Next == NextStep \/ ApplyStep

Spec == Init /\ [][Next]_vars

\* ------------------------------------- matches followed from a situation
\* A run of play is a sequence of partial events: an event Sim::next returns
\* matches an entry when it has the entry's fields with the entry's values.
Matches(e, ev) == \A f \in DOMAIN e : f \in DOMAIN ev /\ ev[f] = e[f]

\* The match and world after the run of play: each entry is an event
\* Sim::next can return at that point (else the run is not one of the
\* program's, ok = FALSE), applied by Event::apply.  A run is played as
\* its first half followed by its second half.
RECURSIVE Played(_, _, _)
Played(script, g, w) ==
    IF script = <<>> THEN [g |-> g, w |-> w, ok |-> TRUE]
    ELSE IF Len(script) = 1
    THEN LET cands == {t \in SimNext(g, w) :
                          t.panic = "none" /\ Matches(script[1], t.ev)}
         IN  IF cands = {} THEN [g |-> g, w |-> w, ok |-> FALSE]
             ELSE LET r == Apply((CHOOSE t \in cands : TRUE).ev, g, w)
                  IN  [g |-> r.g, w |-> r.w, ok |-> ~r.panic]
    ELSE LET mid == Len(script) \div 2
             first == Played(SubSeq(script, 1, mid), g, w)
         IN  IF ~first.ok THEN first
             ELSE Played(SubSeq(script, mid + 1, Len(script)), first.g, first.w)

RECURSIVE Times(_, _)
Times(sq, n) == IF n = 0 THEN <<>> ELSE sq \o Times(sq, n - 1)

BU == [tag |-> "BatterUp"]
GO == [tag |-> "GroundOut"]
Single(after) == [tag |-> "BaseHit", bases |-> 1, runners_after |-> after]
Triple == [tag |-> "BaseHit", bases |-> 3]
Ball3 == <<BU, [tag |-> "Ball"], [tag |-> "Ball"], [tag |-> "Ball"]>>
\* A half-inning of three ground outs, and the switch that ends it.
HalfInning == <<BU, GO, BU, GO, BU, GO, [tag |-> "InningSwitch"]>>

\* A situation: a match (its weather, its day, the modifiers in play, the
\* players swept elsewhere on day 0) and the run of play so far.
Situation(pmods, script) ==
    [weather |-> "Sun", pmods |-> pmods, tmods |-> <<>>, events |-> FollowEvents,
     day |-> 0, swept |-> <<>>, script |-> script]

\* The world of a situation: a player swept on day 0 is Elsewhere since.
SituationWorld(s) ==
    [WAddModAll(SetupWorld(s), s.swept, "Elsewhere", "Permanent")
       EXCEPT !.swept_on = [p \in DOMAIN @ |-> IF p \in SeqSet(s.swept) THEN 0 ELSE @[p]]]

SituationGame(s) == [NewGame(s.weather, SituationWorld(s)) EXCEPT !.day = s.day]

Situations ==
    {\* the bottom of the ninth, two out, the away side a home run ahead
     Situation(<<>>, Times(HalfInning, 16) \o <<BU, [tag |-> "HomeRun"]>>
                       \o HalfInning \o <<BU, GO, BU, GO>>),
     \* the bottom of the ninth, two out, no score
     Situation(<<>>, Times(HalfInning, 17) \o <<BU, GO, BU, GO>>),
     \* two out and a runner on base in the first inning
     Situation(<<>>, <<BU, Single(<<>>), BU, GO, BU, GO>>),
     \* a runner on third, a batter up
     Situation(<<>>, <<BU, Triple, BU>>),
     \* runners on second and first, a batter up
     Situation(<<>>, <<BU, Single(<<>>), BU,
                       Single(<<[id |-> 1, base |-> 1]>>), BU>>),
     \* a Blaserunning runner on first, a batter up
     Situation(<<<<1, "Blaserunning">>>>, <<BU, Single(<<>>), BU>>),
     \* a full count
     Situation(<<>>, Ball3 \o <<[tag |-> "Strike"], [tag |-> "Strike"]>>),
     \* three balls on a batter with base instincts; on the batter of a Mild
     \* pitcher
     Situation(<<<<1, "BaseInstincts">>>>, Ball3),
     Situation(<<<<11, "Mild">>>>, Ball3),
     \* a charming, magmatic batter against a charming pitcher in debt
     Situation(<<<<1, "Charm">>, <<11, "Charm">>, <<11, "DebtU">>,
                 <<1, "Magmatic">>>>, <<>>),
     \* Reverb weather, a reverberating, repeating batter who has just hit
     [Situation(<<<<1, "Reverberating">>, <<1, "Repeating">>>>, <<BU, Single(<<>>)>>)
        EXCEPT !.weather = "Reverb"],
     \* a shelled first batter
     Situation(<<<<1, "Shelled">>>>, <<>>),
     \* Flooding, a runner on first, a batter up
     [Situation(<<>>, <<BU, Single(<<>>), BU>>) EXCEPT !.weather = "Flooding"],
     \* Birds; Eclipse with a fireproof batter and a minimized home player;
     \* Blooddrain against a home team with Sealant
     [Situation(<<>>, <<>>) EXCEPT !.weather = "Birds"],
     [Situation(<<<<1, "Fireproof">>, <<7, "Minimized">>>>, <<>>)
        EXCEPT !.weather = "Eclipse"],
     [Situation(<<>>, <<>>) EXCEPT !.weather = "Blooddrain",
                                   !.tmods = <<<<"home", "Sealant">>>>],
     \* day 20, the third batter elsewhere since day 0, a batter up
     [Situation(<<>>, <<BU>>) EXCEPT !.day = 20, !.swept = <<3>>],
     \* Salmon: the away side has scored and is two out in the top of the first
     [Situation(<<>>, <<BU, [tag |-> "HomeRun"], BU, GO, BU, GO, BU>>)
        EXCEPT !.weather = "Salmon"],
     \* Salmon: the away side scores in the top of the first, loses the run to
     \* the salmon and is two ground outs and a batter into the top of the
     \* first again
     [Situation(<<>>, <<BU, [tag |-> "HomeRun"]>> \o HalfInning
                        \o <<[tag |-> "Salmon", away_runs_lost |-> TRUE]>>
                        \o <<BU, GO, BU, GO, BU>>)
        EXCEPT !.weather = "Salmon"],
     \* a spicy first batter, at the start and up again after a single
     Situation(<<<<1, "Spicy">>>>, <<>>),
     Situation(<<<<1, "Spicy">>>>,
               <<BU, Single(<<>>), BU, GO, BU, GO, BU, [tag |-> "BaseHit", bases |-> 1],
                 BU>>),
     \* a flinching first batter
     Situation(<<<<1, "Flinch">>>>, <<>>),
     \* five bases, a runner on first, a batter up
     [Situation(<<>>, <<BU, Single(<<>>), BU>>)
        EXCEPT !.tmods = <<<<"away", "FifthBase">>>>],
     \* Blooddrain, a siphon at the plate and one on the mound, two out and a
     \* ball on the batter
     [Situation(<<<<3, "Siphon">>, <<11, "Siphon">>>>,
                <<BU, GO, BU, GO, BU, [tag |-> "Ball"]>>)
        EXCEPT !.weather = "Blooddrain", !.events = FollowEvents - 1],
     \* Birds, a friend of crows on the mound, two out
     [Situation(<<<<11, "FriendOfCrows">>>>, <<BU, GO, BU, GO, BU>>)
        EXCEPT !.weather = "Birds"],
     \* two electric teams, a ball and a strike on the batter
     [Situation(<<>>, <<BU, [tag |-> "Ball"], [tag |-> "Strike"]>>)
        EXCEPT !.tmods = <<<<"away", "Electric">>, <<"home", "Electric">>>>],
     \* a walk in the park: two balls on the batter of a Mild pitcher, the
     \* walk threshold at three
     [Situation(<<<<11, "Mild">>>>, <<BU, [tag |-> "Ball"], [tag |-> "Ball"]>>)
        EXCEPT !.tmods = <<<<"away", "WalkInThePark">>>>],
     \* an eclipse over a batter and a pitcher that nothing protects
     [Situation(<<>>, <<BU>>) EXCEPT !.weather = "Eclipse", !.events = FollowEvents - 1],
     \* Night: a batter up; a haunted batter inhabited by a player of the hall
     [Situation(<<>>, <<BU>>) EXCEPT !.weather = "Night", !.events = FollowEvents - 1],
     [Situation(<<<<1, "Haunted">>>>, <<[tag |-> "Inhabiting"]>>)
        EXCEPT !.weather = "Night", !.events = FollowEvents - 1],
     \* the top of the ninth, two out, the home side a home run ahead
     Situation(<<>>, HalfInning \o <<BU, [tag |-> "HomeRun"]>> \o HalfInning
                       \o Times(HalfInning, 14) \o <<BU, GO, BU, GO>>),
     \* Salmon: the away side scored in the top of the first, the inning
     \* switched and the salmon swam upstream
     [Situation(<<>>, <<BU, [tag |-> "HomeRun"]>> \o HalfInning
                        \o <<[tag |-> "Salmon", away_runs_lost |-> FALSE]>>)
        EXCEPT !.weather = "Salmon", !.events = FollowEvents - 1],
     \* a triple threat home pitcher as the fourth inning begins
     [Situation(<<<<11, "TripleThreat">>>>, Times(HalfInning, 6))
        EXCEPT !.events = FollowEvents - 1],
     \* Sun 2: the away side has just hit its tenth home run
     [Situation(<<>>, Times(<<BU, [tag |-> "HomeRun"]>>, 10)) EXCEPT !.weather = "Sun2"],
     \* Sun 2: nine runs each, the bottom of the ninth, one out, runners on
     \* third and first, a batter up
     [Situation(<<>>, Times(<<BU, [tag |-> "HomeRun"]>>, 9) \o HalfInning
                        \o Times(<<BU, [tag |-> "HomeRun"]>>, 9) \o HalfInning
                        \o Times(HalfInning, 15)
                        \o <<BU, GO, BU, [tag |-> "BaseHit", bases |-> 2], BU,
                             Single(<<[id |-> 9, base |-> 2]>>), BU>>)
        EXCEPT !.weather = "Sun2"]}

SituationInit ==
    \E s \in Situations :
        LET p == Played(s.script, SituationGame(s), SituationWorld(s))
        IN  /\ p.ok
            /\ world = p.w
            /\ game = p.g
            /\ pending = Idle
            /\ replay = [g |-> p.g, w |-> p.w]
            /\ budget = Len(p.g.events) + s.events
            /\ mods = ModsNew
            /\ modsOp = NoModsOp

SituationSpec == SituationInit /\ [][Next]_vars

\* ------------------------------------------- the operations of mods.rs
\* The modifiers and lifetimes the collection is exercised with.
ModsUnderTest == {"Mild", "Spicy"}

MatchVars == <<game, world, pending, replay, budget>>

ModsInit ==
    /\ world = NewWorld
    /\ game = NewGame("Sun", NewWorld)
    /\ pending = Idle
    /\ replay = [g |-> NewGame("Sun", NewWorld), w |-> NewWorld]
    /\ budget = 0
    /\ mods = ModsNew
    /\ modsOp = NoModsOp

\* Mods::add
ModsAddStep ==
    \E m \in ModsUnderTest, l \in ModLifetime :
        /\ Len(ModsAdd(mods, m, l)) <= MaxModEntries
        /\ mods' = ModsAdd(mods, m, l)
        /\ modsOp' = ModsOp("add", m, l, 0)
        /\ UNCHANGED MatchVars

\* Mods::remove
ModsRemoveStep ==
    \E m \in ModsUnderTest :
        /\ mods' = ModsRemove(mods, m)
        /\ modsOp' = ModsOp("remove", m, "none", Len(mods) - Len(mods'))
        /\ UNCHANGED MatchVars

ModsClearStep(op, cleared, lifetime) ==
    /\ mods' = cleared
    /\ modsOp' = ModsOp(op, "none", lifetime, Len(mods) - Len(cleared))
    /\ UNCHANGED MatchVars

\* Mods::clear_game, clear_weekly, clear_season, clear_legendary_item
ModsClearGameStep == ModsClearStep("clear_game", ModsClearGame(mods), "Game")
ModsClearWeeklyStep == ModsClearStep("clear_weekly", ModsClearWeekly(mods), "Week")
ModsClearSeasonStep == ModsClearStep("clear_season", ModsClearSeason(mods), "Season")
ModsClearLegendaryItemStep ==
    ModsClearStep("clear_legendary_item", ModsClearLegendaryItem(mods), "LegendaryItem")

ModsNext ==
    \/ ModsAddStep
    \/ ModsRemoveStep
    \/ ModsClearGameStep
    \/ ModsClearWeeklyStep
    \/ ModsClearSeasonStep
    \/ ModsClearLegendaryItemStep

ModsSpec == ModsInit /\ [][ModsNext]_vars

\* ------------------------------- events applied from a recorded stream
\* Event::apply is handed events that Sim::next did not make (a recorded
\* match that is replayed): the sub-kind codes range over their types, here
\* up to one past the recognised codes (stat and hbp_type are u8,
\* siphon_effect is an i16).
MaxStatCode == 4
MaxHbpType == 3
MinSiphonEffect == -2
MaxSiphonEffect == 3

FedEvents ==
    {[tag |-> "Blooddrain", drainer |-> 11, target |-> 1, stat |-> st,
      siphon |-> TRUE, siphon_effect |-> se]
       : st \in 0..MaxStatCode, se \in MinSiphonEffect..MaxSiphonEffect}
      \cup {[tag |-> "HitByPitch", target |-> b, hbp_type |-> t]
              : b \in {1, 2}, t \in 0..MaxHbpType}
      \cup {[tag |-> "BatterUp", batter |-> b] : b \in {1, 2}}
      \cup {[tag |-> "Ball"]}

\* The events of the stream that fit the match as it stands: a siphon takes
\* an out or a ball off only where there is one, a batter comes up to an
\* empty plate and is the one that is hit.
Fits(ev, g) ==
    CASE ev.tag = "Blooddrain" ->
           /\ ev.siphon_effect = 0 => g.outs < MaxOuts - 1
           /\ ev.siphon_effect = 1 => g.outs > 0
           /\ ev.siphon_effect = 2 => g.balls > 0
      [] ev.tag = "HitByPitch" -> Batter(g) = ev.target
      [] ev.tag = "BatterUp" ->
           /\ Batter(g) = NoPlayer
           /\ ev.batter = g.sb[BattingSide(g)].batter_index + 1
      [] ev.tag = "Ball" -> Batter(g) # NoPlayer /\ g.balls < 3

FedInit ==
    /\ world = NewWorld
    /\ game = NewGame("Blooddrain", NewWorld)
    /\ pending = Idle
    /\ replay = [g |-> NewGame("Blooddrain", NewWorld), w |-> NewWorld]
    /\ budget = MaxFed
    /\ mods = ModsNew
    /\ modsOp = NoModsOp

\* The next event of the stream is taken up.
FeedStep ==
    /\ pending = Idle
    /\ EventsLen(game.events) < budget
    /\ \E ev \in FedEvents :
          /\ Fits(ev, game)
          /\ pending' = Ticked(ev, "none", <<>>, <<>>, "none", NoRolls, "none")
    /\ UNCHANGED <<game, world, replay, budget, mods, modsOp>>

FedNext == FeedStep \/ ApplyStep

FedSpec == FedInit /\ [][FedNext]_vars


\* ------------------------------------------------------ properties
\* A step that applied the pending event to the end.
Applied == pending.ev # NoEv /\ pending.panic = "none" /\ pending' = Idle

\* C1: every completed Event::apply appends exactly one entry to the match's
\* event log, that entry is the applied event's tag, and the earlier entries
\* keep their value and position; no other step touches the log.
LogGrowsByTheTag ==
    [][IF Applied
       THEN game'.events = Append(game.events, pending.ev.tag)
       ELSE game'.events = game.events]_vars

\* Three events have been applied, the last of them a Strikeout.
LogHoldsAStrikeout ==
    /\ EventsLen(game.events) >= 3
    /\ game.events[1] = "BatterUp"
    /\ EventsLast(game.events) = "Strikeout"
    /\ pending = Idle


BasesInRange ==
    \A i \in DOMAIN game.runners : game.runners[i].base < GetBases(game, world)

OneRunnerPerBase ==
    \A i, j \in DOMAIN game.runners :
        i # j => game.runners[i].base # game.runners[j].base

OneBasePerRunner ==
    \A i, j \in DOMAIN game.runners :
        i # j => game.runners[i].id # game.runners[j].id

\* The events that bring a player to bat out of the lineup's turn, or change
\* the lineup.
OutOfTurnTags ==
    {"Reverberating", "Repeating", "Inhabiting", "Reverb", "Feedback", "NightShift",
     "Incineration", "Shelled", "Elsewhere"}

BattedInTurn == \A i \in DOMAIN game.events : game.events[i] \notin OutOfTurnTags

PaEndingTags ==
    {"Strikeout", "CharmStrikeout", "Walk", "CharmWalk", "HomeRun", "MagmaticHomeRun",
     "BaseHit", "GroundOut", "Flyout", "DoublePlay", "FieldersChoice", "HitByPitch",
     "InstinctWalk", "MildWalk", "CrowAmbush"}

\* The events of a pitch that leaves the batter at the plate.
CountTags == {"Ball", "Strike", "Foul"}

CountIsClear == game.balls = 0 /\ game.strikes = 0

\* The last applied event ended a plate appearance.
PaJustEnded ==
    EventsLen(game.events) > 0 /\ EventsLast(game.events) \in PaEndingTags

\* Sim::next has resolved a pitch, the first one since a plate appearance
\* ended: no event of the log after that end is one of `between`.
FirstPitchSince(between) ==
    /\ pending.winner = "Base"
    /\ \E k \in DOMAIN game.events :
          /\ game.events[k] \in PaEndingTags
          /\ \A j \in (k + 1)..Len(game.events) :
                game.events[j] \notin PaEndingTags \cup between

\* C4 as stated: after an event that ends a plate appearance is applied the
\* ball and strike counts are 0, and they are 0 when the next pitch is
\* resolved for the following batter.
CountClearAtNextPitch ==
    /\ PaJustEnded => CountIsClear
    /\ FirstPitchSince(CountTags) => CountIsClear

\* C4, amended: after an event that ends a plate appearance is applied the
\* ball and strike counts are 0, and they are 0 when the next pitch is
\* resolved for the following batter unless a MildPitch came before it.
CountClearAtNextPitchButMild ==
    /\ PaJustEnded => CountIsClear
    /\ FirstPitchSince(CountTags \cup {"MildPitch"}) => CountIsClear

\* A pitch is resolved for the batter who follows a plate appearance that a
\* home run ended in a match with a Mild pitcher.
FirstPitchAfterAHomeRun ==
    /\ FirstPitchSince(CountTags \cup {"MildPitch"})
    /\ CountIsClear
    /\ PlayerHas(world, Pitcher(game), "Mild")
    /\ \E k \in DOMAIN game.events : game.events[k] = "HomeRun"


\* C5: applying a Strikeout or a CharmStrikeout adds exactly 1 to the outs,
\* applying a DoublePlay adds exactly 2.
StrikeoutOneOutDoublePlayTwo ==
    [][Applied =>
          /\ pending.ev.tag \in {"Strikeout", "CharmStrikeout"}
                => game'.outs = game.outs + 1
          /\ pending.ev.tag = "DoublePlay" => game'.outs = game.outs + 2]_vars

\* A double play has just been applied after a strikeout-free start: two
\* outs are on the board.
DoublePlayMadeTwoOuts ==
    /\ pending = Idle
    /\ EventsLen(game.events) > 0
    /\ EventsLast(game.events) = "DoublePlay"
    /\ game.outs = 2

\* C6: when the outs stand at the maximum or above, the next Sim::next
\* returns InningSwitch or GameOver, from InningStatePlugin, and no provider
\* after it is consulted or draws from the Rng in that tick.
FullOutsEndTheHalf ==
    (game.outs >= MaxOuts /\ pending # Idle) =>
        /\ pending.panic = "none"
        /\ pending.ev.tag \in {"InningSwitch", "GameOver"}
        /\ pending.winner = "InningState"
        /\ pending.evaluated = <<"Pregame", "InningState">>
        /\ TickDraws(pending) = 0

\* Three outs are on the board and Sim::next has answered with the switch.
ThreeOutsThenInningSwitch ==
    /\ game.outs = MaxOuts
    /\ pending.ev.tag = "InningSwitch"
    /\ pending.ev.top = FALSE
    /\ EventsLast(game.events) \in {"Strikeout", "GroundOut", "Flyout", "DoublePlay",
                                    "FieldersChoice", "CaughtStealing"}

\* Sim::next has resolved a pitch as a swinging or a looking strike.
StrikePitch == pending.winner = "Base" /\ pending.pitch \in {"StrikeSwinging", "StrikeLooking"}

NoThresholdStrike ==
    pending.ev.tag = "Strike" => game.strikes + 1 < GetMaxStrikes(game, world)

\* C7 as stated: a swinging or looking strike with strikes + 1 at the strike
\* threshold is a Strikeout, and no Strike event is emitted that would bring
\* the strikes up to the threshold.
LastStrikeIsStrikeout ==
    /\ (StrikePitch /\ game.strikes + 1 >= GetMaxStrikes(game, world))
          => pending.ev.tag = "Strikeout"
    /\ NoThresholdStrike

\* C7, amended: a swinging or looking strike with strikes + 1 at the strike
\* threshold is a Strikeout, except that a looking strike is a Foul when the
\* batting team has ONo and there are no balls; and no Strike event is
\* emitted that would bring the strikes up to the threshold.
LastStrikeIsStrikeoutButONo ==
    /\ (StrikePitch /\ game.strikes + 1 >= GetMaxStrikes(game, world))
          => IF pending.pitch = "StrikeLooking" /\ game.balls = 0
                /\ TeamHas(world, BattingSide(game), "ONo")
             THEN pending.ev.tag = "Foul"
             ELSE pending.ev.tag = "Strikeout"
    /\ NoThresholdStrike

\* A fresh at-bat took Strike, Strike, and the third strike is a Strikeout.
StrikeStrikeStrikeout ==
    /\ game.events = <<"BatterUp", "Strike", "Strike">>
    /\ GetMaxStrikes(game, world) = 3
    /\ StrikePitch
    /\ pending.ev.tag = "Strikeout"


ProviderOrder ==
    <<"Pregame", "InningState", "InningEvent", "BatterState", "Weather", "Elsewhere",
      "Party", "Flooding", "Mod", "Stealing", "Base">>

\* C9: Sim::next consults the providers in the order Pregame, InningState,
\* InningEvent, BatterState, Weather, Elsewhere, Party, Flooding, Mod,
\* Stealing, Base; the event it returns is the one of the first provider that
\* yields, every provider before it having yielded nothing; the providers
\* after it are not consulted and draw nothing.
FirstProviderWins ==
    pending # Idle =>
        LET k == Len(pending.evaluated)
        IN  /\ k >= 1
            /\ pending.evaluated = SubSeq(ProviderOrder, 1, k)
            /\ Len(pending.draws) = k
            /\ \A i \in 1..(k - 1) :
                  \E o \in Tick(ProviderOrder[i], game, world) :
                      ~o.panic /\ o.ev = NoEv /\ o.n = pending.draws[i]
            /\ pending.panic = "none" =>
                  /\ pending.winner = ProviderOrder[k]
                  /\ pending.ev # NoEv
                  /\ \E o \in Tick(ProviderOrder[k], game, world) :
                        ~o.panic /\ o.ev = pending.ev /\ o.n = pending.draws[k]

\* StealingPlugin yielded: the nine providers before it were consulted, the
\* party provider drew, and BasePlugin after it was left alone.
StealWinsBeforeThePitch ==
    /\ pending.winner = "Stealing"
    /\ pending.ev.tag = "BaseSteal"
    /\ Len(pending.evaluated) = 10
    /\ pending.draws[7] > 0

\* C10: Sim::next never falls through the providers without an event, and
\* WeatherPlugin, ModPlugin and BasePlugin are only consulted with an active
\* batter set: without one the chain stops at BatterStatePlugin.
NextAlwaysFindsAnEvent ==
    /\ pending.panic # "uhhh"
    /\ \A i \in DOMAIN pending.evaluated :
          pending.evaluated[i] \in {"Weather", "Mod", "Base"} => Batter(game) # NoPlayer
    /\ (Batter(game) = NoPlayer /\ pending # Idle /\ Len(pending.evaluated) >= 4)
          => pending.winner = "BatterState"

\* A plate appearance has ended, there is no active batter, and
\* BatterStatePlugin yields the next one.
BatterStateFillsThePlate ==
    /\ game.started
    /\ Batter(game) = NoPlayer
    /\ PaJustEnded
    /\ pending.winner = "BatterState"
    /\ pending.ev.tag = "BatterUp"

\* ------------------------------------------------ properties of mods.rs
\* C11: Mods::add is idempotent: after add(m, l), adding (m, l) again
\* leaves the collection as it is, and has(x) answers the same for every
\* modifier x.
AddTwiceIsAddOnce ==
    modsOp.op = "add" =>
        LET twice == ModsAdd(mods, modsOp.m, modsOp.lifetime)
        IN  /\ twice = mods
            /\ \A x \in ModsUnderTest : ModsHas(twice, x) = ModsHas(mods, x)

\* An add of a pair the collection already held, older entries in place.
AddedAgainNoNewEntry ==
    /\ modsOp.op = "add"
    /\ Len(mods) >= 2
    /\ mods[1] = <<modsOp.m, modsOp.lifetime>>

\* C12 as stated: after any sequence of add, remove and clear operations the
\* collection holds at most one entry per modifier, entries that differ in
\* lifetime only included.
OneEntryPerModifier ==
    \A i, j \in DOMAIN mods : mods[i][1] = mods[j][1] => i = j

\* C12, amended: the collection holds at most one entry per (modifier,
\* lifetime) pair; one modifier may be held under several lifetimes.
OneEntryPerModifierAndLifetime ==
    \A i, j \in DOMAIN mods : mods[i] = mods[j] => i = j

\* One modifier held under two lifetimes.
SameModifierTwoLifetimes ==
    \E i, j \in DOMAIN mods : mods[i][1] = mods[j][1] /\ mods[i][2] # mods[j][2]

\* C13: after remove(m), has(m) is false whatever lifetimes m was held
\* under, and has(x) is as before for every other modifier x.
RemoveDropsEveryLifetime ==
    [][modsOp'.op = "remove" =>
          /\ ~ModsHas(mods', modsOp'.m)
          /\ \A x \in ModsUnderTest \ {modsOp'.m} :
                 ModsHas(mods', x) = ModsHas(mods, x)]_vars

\* A remove that dropped two entries of the modifier and left another
\* modifier's entry.
RemovedTwoLifetimes ==
    modsOp.op = "remove" /\ modsOp.dropped >= 2 /\ mods # <<>>

\* The lifetime each bulk clear is for.
ScopeOf(op) ==
    CASE op = "clear_game" -> "Game"
      [] op = "clear_weekly" -> "Week"
      [] op = "clear_season" -> "Season"
      [] op = "clear_legendary_item" -> "LegendaryItem"

ClearOps == {"clear_game", "clear_weekly", "clear_season", "clear_legendary_item"}

EntriesOf(ms, lifetime) == {k \in DOMAIN ms : ms[k][2] = lifetime}

\* C14: a bulk clear removes exactly the entries of its lifetime and leaves
\* the others as they were and in order; a Permanent entry leaves the
\* collection by a remove of its modifier only.
ClearDropsItsLifetimeOnly ==
    [][/\ modsOp'.op \in ClearOps =>
            LET l == ScopeOf(modsOp'.op)
            IN  /\ EntriesOf(mods', l) = {}
                /\ Len(mods') = Len(mods) - Cardinality(EntriesOf(mods, l))
                /\ \A i \in DOMAIN mods \ EntriesOf(mods, l) :
                       mods'[i - Cardinality(EntriesOf(mods, l) \cap 1..i)] = mods[i]
       /\ \A i \in EntriesOf(mods, "Permanent") :
              (\A j \in DOMAIN mods' : mods'[j] # mods[i]) =>
                  modsOp'.op = "remove" /\ modsOp'.m = mods[i][1]]_vars

\* A weekly clear that dropped an entry and left a Permanent one and
\* another.
WeeklyClearLeftThePermanent ==
    /\ modsOp.op = "clear_weekly"
    /\ modsOp.dropped >= 1
    /\ Len(mods) >= 2
    /\ EntriesOf(mods, "Permanent") # {}

\* ------------------------------------------- properties of the event log
\* The tags and limits the log is queried with.
QueryTags == {"BatterUp", "Strikeout", "GroundOut", "Flyout", "BaseHit"}
QueryLimits == {-1, 0, 1, 2}

\* The backward window of a query: entry i is inside it when no more than
\* `limit` InningSwitch entries lie between it and the newest entry (itself
\* included); limit -1 is the whole log.
InWindow(evs, i, limit) ==
    \/ limit = -1
    \/ Cardinality({k \in i..Len(evs) : evs[k] = BoundaryTag}) <= limit

WindowMatches(evs, tags, limit) ==
    {i \in DOMAIN evs : evs[i] \in tags /\ InWindow(evs, i, limit)}

\* C15: on a log produced by apply, has(tag, limit) is true iff tag occurs
\* inside the backward window that ends where more than `limit` InningSwitch
\* entries have been crossed; limit -1 scans the whole log.
HasLooksInsideTheWindow ==
    \A tag \in QueryTags, limit \in QueryLimits :
        EventsHas(game.events, tag, limit)
            <=> WindowMatches(game.events, {tag}, limit) # {}

\* C16: on a log produced by apply, count(tag, limit) and
\* streak_multiple(tags, limit) are the numbers of entries equal to tag (of
\* entries among tags) inside the same backward window.
CountAndStreakCountInsideTheWindow ==
    \A limit \in QueryLimits :
        /\ \A tag \in QueryTags :
               EventsCount(game.events, tag, limit)
                   = Cardinality(WindowMatches(game.events, {tag}, limit))
        /\ EventsStreakMultiple(game.events, <<"BaseHit", "GroundOut">>, limit)
               = Cardinality(WindowMatches(game.events, {"BaseHit", "GroundOut"}, limit))

\* ------------------------------------------ properties of Event::apply
Min(a, b) == IF a < b THEN a ELSE b

\* C17: applying Ball adds one ball, applying Strike adds one strike, and
\* applying Foul adds one strike but never takes the strikes past the
\* threshold less one; none of the three changes anything else of the count
\* or the outs.
CountMovesByOne ==
    [][Applied =>
          /\ pending.ev.tag = "Ball" =>
                 /\ game'.balls = game.balls + 1
                 /\ game'.strikes = game.strikes /\ game'.outs = game.outs
          /\ pending.ev.tag = "Strike" =>
                 /\ game'.strikes = game.strikes + 1
                 /\ game'.balls = game.balls /\ game'.outs = game.outs
          /\ pending.ev.tag = "Foul" =>
                 /\ game'.strikes =
                        Min(game.strikes + 1, GetMaxStrikes(game, world) - 1)
                 /\ game'.strikes < GetMaxStrikes(game', world')
                 /\ game'.balls = game.balls /\ game'.outs = game.outs]_vars

\* A foul applied with two strikes on the batter: the strikes stay at two.
FoulWithTwoStrikes ==
    /\ pending = Idle
    /\ Len(game.events) >= 3
    /\ SubSeq(game.events, Len(game.events) - 2, Len(game.events))
           = <<"Strike", "Strike", "Foul">>
    /\ game.strikes = 2
    /\ Batter(game) # NoPlayer

\* The steal applied in this step, the runners it found on base_from and the
\* runners with those moved up one base.
StealApplied == Applied /\ pending.ev.tag = "BaseSteal"

StealersOn(from) == {i \in DOMAIN game.runners : game.runners[i].base = from}

MovedUp(from) ==
    [i \in DOMAIN game.runners |->
        IF i \in StealersOn(from) THEN [game.runners[i] EXCEPT !.base = from + 1]
        ELSE game.runners[i]]

\* C18 as stated: applying BaseSteal moves exactly one runner forward by one
\* base, leaves every other runner where it was, and changes neither side's
\* score.
StealMovesOneRunnerNeverScores ==
    [][StealApplied =>
          /\ Cardinality(StealersOn(pending.ev.base_from)) = 1
          /\ game'.runners = MovedUp(pending.ev.base_from)
          /\ \A t \in Sides : game'.sb[t].score = game.sb[t].score]_vars

\* C18, amended: applying BaseSteal moves exactly one runner, the one the
\* event names, forward by one base and leaves every other runner where it
\* was; the scoring routine then runs: a runner who reached home leaves the
\* bases and scores a run for the batting side, and a Blaserunning runner
\* adds 0.2 to the batting side's score.  The fielding side's score never
\* changes.
StealMovesOneRunnerMayScore ==
    [][StealApplied =>
          LET from == pending.ev.base_from
              home == GetBases(game, world) - 1
              side == BattingSide(game)
          IN  /\ Cardinality(StealersOn(from)) = 1
              /\ \A i \in StealersOn(from) : game.runners[i].id = pending.ev.runner
              /\ game'.runners = SelectSeq(MovedUp(from), LAMBDA r : r.base < home)
              /\ game'.sb[side].score = game.sb[side].score
                    + (IF from + 1 = home THEN 10 ELSE 0)
                    + (IF PlayerHas(world, pending.ev.runner, "Blaserunning")
                       THEN 2 ELSE 0)
              /\ game'.sb[Other(side)].score = game.sb[Other(side)].score]_vars

\* A runner stole home from third: the bases are empty and the run is in.
RunnerStoleHome ==
    /\ pending = Idle
    /\ game.events # <<>> /\ EventsLast(game.events) = "BaseSteal"
    /\ game.runners = <<>>
    /\ game.sb[BattingSide(game)].score = 10

\* What a boundary event is said to reset: the outs, the count, the
\* half-inning's scoring counter and the bases.
HalfIsReset(g) ==
    /\ g.outs = 0 /\ g.balls = 0 /\ g.strikes = 0
    /\ g.scoring_plays_inning = 0
    /\ g.runners = <<>>

HalfOf(g) == <<g.outs, g.balls, g.strikes, g.scoring_plays_inning, g.runners>>

\* C19 as stated: applying InningSwitch or GameOver resets outs, balls and
\* strikes to 0, resets the half-inning's scoring counter and leaves the
\* bases empty.
BoundaryResetsTheHalf ==
    [][Applied /\ pending.ev.tag \in {"InningSwitch", "GameOver"}
          => HalfIsReset(game')]_vars

\* C19, amended: applying InningSwitch resets outs, balls and strikes to 0,
\* resets the half-inning's scoring counter and leaves the bases empty;
\* applying GameOver leaves all of them as they were (the third out stays
\* on the board).
InningSwitchResetsGameOverDoesNot ==
    [][Applied =>
          /\ pending.ev.tag = "InningSwitch" => HalfIsReset(game')
          /\ pending.ev.tag = "GameOver" => HalfOf(game') = HalfOf(game)]_vars

\* The match is over after the ninth: the result is on the teams' records
\* and the three outs are still on the board.
GameOverWithThreeOuts ==
    /\ pending = Idle
    /\ game.events # <<>> /\ EventsLast(game.events) = "GameOver"
    /\ game.inning = 9 /\ game.outs = 3
    /\ world.wins["away"] = 1 /\ world.losses["home"] = 1

\* The plate-appearance events of C20.
ResolutionTags ==
    {"Strikeout", "Walk", "HomeRun", "BaseHit", "GroundOut", "Flyout",
     "DoublePlay", "FieldersChoice", "HitByPitch", "InstinctWalk", "MildWalk",
     "CharmWalk", "CharmStrikeout", "MagmaticHomeRun"}

\* What applying a plate-appearance event of the given tags does: the at-bat
\* ends (count reset, batter gone, order index moved on), no runner is left
\* at home (the scoring routine ran) and the batter's history has the tag
\* appended once.
ResolutionDoesAll(tags) ==
    Applied /\ pending.ev.tag \in tags =>
        LET b == Batter(game)
            side == BattingSide(game)
        IN  /\ game'.balls = 0 /\ game'.strikes = 0
            /\ game'.sb[side].batter = NoPlayer
            /\ game'.sb[side].batter_index = game.sb[side].batter_index + 1
            /\ \A i \in DOMAIN game'.runners :
                   game'.runners[i].base < GetBases(game, world) - 1
            /\ world'.feed[b] = Append(world.feed[b], pending.ev.tag)

\* C20: every plate-appearance event the spec lists, when applied, ends the
\* at-bat, runs the scoring routine and appends its tag to the batter's
\* history exactly once.
EveryResolutionEndsScoresRecords == [][ResolutionDoesAll(ResolutionTags)]_vars

\* ------------------------------------------ the batter order index
RollbackTags == {"Reverberating", "Repeating"}

\* C21: across the applied events a side's batter order index never goes
\* down, except that applying Reverberating or Repeating takes the batting
\* side's index down by exactly 1; every other event leaves an index as it
\* was or takes it up.
BatterIndexOnlyRollsBack ==
    [][Applied =>
          \A s \in Sides :
              LET d == game'.sb[s].batter_index - game.sb[s].batter_index
              IN  IF pending.ev.tag \in RollbackTags /\ s = BattingSide(game)
                  THEN d = -1
                  ELSE d >= 0]_vars

\* The batter who hit came back reverberating, hit again and came back
\* repeating: the index is back where the match started.
RepeatingAfterReverberating ==
    /\ pending = Idle
    /\ EventsLen(game.events) > 0
    /\ EventsLast(game.events) = "Repeating"
    /\ EventsHas(game.events, "Reverberating", -1)
    /\ game.sb["away"].batter_index = 0
    /\ Batter(game) = 1

\* ------------------------------------------ the shared scoring routine
\* score, then base_sweep: the calls of the shared scoring routine.
ScoringCalls == <<"score", "base_sweep">>

\* The events that only take runners off the bases.
RunnerRemovers == {"CaughtStealing", "Swept", "InningSwitch"}

OccupancyChanged == Applied /\ game'.runners # game.runners

\* C22 as stated: every applied event that changes the baserunner occupancy
\* calls the shared scoring routine, score first and base_sweep second;
\* CaughtStealing and Swept are among them.
OccupancyChangeRunsScoring ==
    [][OccupancyChanged => game'.calls = ScoringCalls]_vars

\* C22, amended: an applied event that changes the occupancy calls score and
\* then base_sweep, unless it is one of CaughtStealing, Swept and
\* InningSwitch: these call neither and only take runners off, the runners
\* that stay keeping their bases.  After any applied event no runner is left
\* at or past home.
OccupancyChangeRunsScoringUnlessRemoval ==
    [][Applied =>
          /\ RunnersHome(game', world') = {}
          /\ game'.runners # game.runners =>
                 IF pending.ev.tag \in RunnerRemovers
                 THEN /\ game'.calls = <<>>
                      /\ SeqSet(game'.runners) \subseteq SeqSet(game.runners)
                 ELSE game'.calls = ScoringCalls]_vars

\* A runner was swept off the bases, and the scoring routine did not run.
SweptOffTheBases ==
    /\ pending = Idle
    /\ EventsLen(game.events) > 0
    /\ EventsLast(game.events) = "Swept"
    /\ BREmpty(game.runners)
    /\ game.calls = <<>>
    /\ \E p \in DOMAIN world.mods : PlayerHas(world, p, "Elsewhere")

\* ------------------------------------------ events without an effect
NoEffectTags == {"Birds", "Fireproof", "IffeyJr", "BlockedDrain"}

\* C23: Birds, Fireproof, IffeyJr and BlockedDrain are events: applying one
\* appends its tag to the log and changes nothing else of the match (inning,
\* half, outs, count, scores, runners, batters, pitchers, order indexes) nor
\* anything of the world (every modifier set included).
NoEffectEventOnlyLogs ==
    [][Applied /\ pending.ev.tag \in NoEffectTags =>
          /\ game'.events = Append(game.events, pending.ev.tag)
          /\ [game' EXCEPT !.events = game.events, !.calls = game.calls] = game
          /\ world' = world]_vars

\* An incineration was blocked by the minimized player of the target's team.
IffeyJrLogged ==
    /\ pending = Idle
    /\ EventsLen(game.events) > 0
    /\ EventsLast(game.events) = "IffeyJr"
    /\ game.weather = "Eclipse"
    /\ Batter(game) # NoPlayer

\* ------------------------------------------ unrecognised sub-kind codes
Unrecognised(ev) ==
    \/ ev.tag = "Blooddrain" /\ ev.siphon_effect \notin {-1, 0, 1, 2}
    \/ ev.tag = "Blooddrain" /\ ev.stat \notin {0, 1, 2, 3}
    \/ ev.tag = "HitByPitch" /\ ev.hbp_type \notin {0, 1, 2}

\* C24: applying a Blooddrain whose siphon_effect is outside {-1, 0, 1, 2} or
\* whose stat is outside {0, 1, 2, 3}, or a HitByPitch whose hbp_type is
\* outside {0, 1, 2}, ends in a panic; the event is never applied to the end.
UnrecognisedSubKindIsFatal ==
    [][pending.ev # NoEv /\ pending.panic = "none" /\ Unrecognised(pending.ev)
          => pending'.panic = "apply" /\ game' = game /\ world' = world]_vars

\* ------------------------------------------ scattered players
ScatteredIffLetters(w) ==
    \A p \in DOMAIN w.mods : PlayerHas(w, p, "Scattered") <=> w.scattered_letters[p] > 0

\* C25: across the ElsewhereReturn and Unscatter events of a match a player
\* holds Scattered exactly while their scattered counter is above 0: a
\* return with letters > 0 sets the counter to the letters and adds the
\* modifier, every Unscatter takes the counter of each of its players down
\* by exactly 1 and removes the modifier exactly when the counter reaches 0,
\* and the counter never goes below 0.
ScatteredWhileLettersLeft ==
    [][Applied =>
          /\ ScatteredIffLetters(world')
          /\ \A p \in DOMAIN world'.mods : world'.scattered_letters[p] >= 0
          /\ pending.ev.tag = "ElsewhereReturn" =>
                 \A i \in DOMAIN pending.ev.returned :
                     LET p == pending.ev.returned[i]
                     IN  /\ ~PlayerHas(world', p, "Elsewhere")
                         /\ pending.ev.letters[i] > 0 =>
                                /\ world'.scattered_letters[p] = pending.ev.letters[i]
                                /\ PlayerHas(world', p, "Scattered")
          /\ pending.ev.tag = "Unscatter" =>
                 \A p \in DOMAIN world.mods :
                     IF p \in SeqSet(pending.ev.unscattered)
                     THEN /\ world'.scattered_letters[p] = world.scattered_letters[p] - 1
                          /\ PlayerHas(world', p, "Scattered")
                                 <=> world'.scattered_letters[p] > 0
                     ELSE /\ world'.scattered_letters[p] = world.scattered_letters[p]
                          /\ world'.mods[p] = world.mods[p]]_vars

\* A player came back scattered and has lost the last letter since.
ScatteredAndRecovered ==
    /\ pending = Idle
    /\ EventsLen(game.events) > 0
    /\ EventsHas(game.events, "ElsewhereReturn", -1)
    /\ EventsLast(game.events) = "Unscatter"
    /\ world.scattered_letters[3] = 0
    /\ ~PlayerHas(world, 3, "Scattered")
    /\ ~PlayerHas(world, 3, "Elsewhere")

\* ------------------------------------------ the salmon's ledger
\* The ledger of the side whose half-inning an InningSwitch ends.
Ledger(g, top) == IF top THEN g.linescore_away ELSE g.linescore_home

\* C26: under Salmon weather the value InningSwitch appends to the ending
\* side's ledger is the runs that side scored in the half-inning just ended,
\* in every half-inning, a half-inning replayed after a Salmon event took
\* runs off that side included.
LedgerTakesTheHalfsRuns ==
    [][Applied /\ pending.ev.tag = "InningSwitch" /\ game.weather = "Salmon" =>
          LET ledger == Ledger(game', game.top)
          IN  /\ Len(ledger) = Len(Ledger(game, game.top)) + 1
              /\ ledger[Len(ledger)] = game.half_runs]_vars

\* ------------------------------------------ spicy batters
HitTags == {"BaseHit", "HomeRun"}
OutTags == {"GroundOut", "Flyout", "DoublePlay", "FieldersChoice"}

HitsOf(w, p) == EventsStreakMultiple(w.feed[p], <<"BaseHit", "HomeRun">>, -1)

\* What the hits and outs do to the heat of the batter, HeatingUp being
\* gained from the hit that makes `hits` hits in the batter's history.
SpicyFollows(hits) ==
    Applied =>
        LET b == Batter(game)
            tag == pending.ev.tag
            heating == PlayerHas(world, b, "HeatingUp")
            redhot == PlayerHas(world, b, "RedHot")
            heating2 == PlayerHas(world', b, "HeatingUp")
            redhot2 == PlayerHas(world', b, "RedHot")
        IN  /\ \A p \in DOMAIN world'.mods :
                   ~(PlayerHas(world', p, "HeatingUp") /\ PlayerHas(world', p, "RedHot"))
            /\ tag \in HitTags /\ ~heating /\ ~redhot =>
                   /\ ~redhot2
                   /\ heating2 <=> PlayerHas(world, b, "Spicy") /\ HitsOf(world', b) = hits
            /\ tag \in HitTags /\ heating => redhot2 /\ ~heating2
            /\ tag \in OutTags /\ redhot => ~redhot2 /\ (heating2 <=> heating)
            /\ tag \in OutTags /\ ~redhot => ~redhot2 /\ ~heating2

\* C27: a Spicy batter gains HeatingUp from the hit that makes two hits in
\* their history, not from the first; a further hit while HeatingUp replaces
\* it with RedHot; an out removes RedHot or else HeatingUp; no batter holds
\* HeatingUp and RedHot together.
SpicyHeatsUpOnSecondHit == [][SpicyFollows(2)]_vars

\* upgrade_spicy as written: the history already holds the hit being applied
\* when it is counted, so HeatingUp comes with the first hit and RedHot with
\* the second.
SpicyHeatsUpOnFirstHit == [][SpicyFollows(1)]_vars

\* The spicy batter hit twice and is red hot.
SpicyBatterRedHot ==
    /\ pending = Idle
    /\ PlayerHas(world, 1, "Spicy")
    /\ PlayerHas(world, 1, "RedHot")
    /\ HitsOf(world, 1) = 2

\* ------------------------------------------ the pitch decision tree
\* The state after Sim::next returned a pitch: the match is still as the
\* pitch found it.
Pitched == pending.pitch # "none" /\ pending.panic = "none"

\* The draws of the provider consulted last.
LastDraws(t) == t.draws[Len(t.draws)]

Flinching(g, w) == g.strikes = 0 /\ PlayerHas(w, Batter(g), "Flinch")

\* A flinching batter on a clean strike count: no swing roll is drawn (do_pitch
\* draws the strike roll only) and the pitch is a ball or a looking strike.
FlinchTakesThePitch ==
    Pitched /\ Flinching(game, world) =>
        /\ ~pending.rolls.does_swing
        /\ pending.pitch \in {"Ball", "StrikeLooking"}
        /\ ~PlayerHas(world, Batter(game), "BaseInstincts") => LastDraws(pending) = 1

\* C28 as stated: when the strike roll misses the pitch is a Ball, never a
\* swinging strike, a foul, an out or a hit; a flinching batter on a clean
\* strike count draws no swing roll and gets a Ball or a looking strike.
StrikeMissIsBall ==
    /\ Pitched /\ ~pending.rolls.is_strike => pending.pitch = "Ball"
    /\ FlinchTakesThePitch

\* C28, amended: when the strike roll misses and the batter does not swing
\* the pitch is a Ball (and a looking strike when the roll hits); a pitch
\* outside the zone that is swung at is never a Ball: it goes on to the
\* contact roll.  A flinching batter on a clean strike count draws no swing
\* roll and gets a Ball or a looking strike.
StrikeMissNotSwungAtIsBall ==
    /\ Pitched /\ ~pending.rolls.does_swing =>
           pending.pitch = IF pending.rolls.is_strike THEN "StrikeLooking" ELSE "Ball"
    /\ Pitched /\ pending.rolls.does_swing =>
           pending.pitch \notin {"Ball", "StrikeLooking"}
    /\ FlinchTakesThePitch

\* A flinching batter with no strike took a ball.
FlinchingBatterTookABall ==
    /\ Pitched
    /\ Flinching(game, world)
    /\ pending.pitch = "Ball"
    /\ pending.ev.tag = "Ball"

\* C29: a fly out with two outs already recorded draws no advancement roll
\* (do_pitch draws 8 times) and no runner advances: the event's runners
\* after are the runners before the pitch, and applying it scores nothing
\* on the third out.
FlyoutWithTwoOutsFreezesRunners ==
    [][/\ pending = Idle /\ pending'.pitch = "Flyout" /\ game.outs = 2 =>
              /\ pending'.ev.runners_after = game.runners
              /\ LastDraws(pending') = 8
       /\ Applied /\ pending.ev.tag = "Flyout" /\ game.outs = 2 =>
              /\ game'.runners = game.runners
              /\ game'.outs = 3
              /\ \A s \in Sides : game'.sb[s].score = game.sb[s].score]_vars

\* The third out was a fly out and the runner is still on the same base.
ThirdOutFlyRunnerStays ==
    /\ pending = Idle
    /\ EventsLen(game.events) > 0
    /\ EventsLast(game.events) = "Flyout"
    /\ game.outs = 3
    /\ ~BREmpty(game.runners)

HitPitches == {"Single", "Double", "Triple", "Quadruple"}

\* C30: for a hit that is no home run the defender roll, the double roll,
\* the triple roll, in 5-base mode the quadruple roll, and one advancement
\* roll per runner are all drawn before the class is chosen (do_pitch draws
\* 10 times, 11 in 5-base mode, and once per runner, and no more); the class
\* is the first that succeeds of quadruple, triple, double, else single; in
\* 4-base mode no quadruple roll is drawn and no BaseHit has bases = 4.
HitClassFromRollsDrawn ==
    Pitched /\ pending.pitch \in HitPitches =>
        LET five == GetBases(game, world) = 5
        IN  /\ LastDraws(pending) = (IF five THEN 11 ELSE 10) + Len(game.runners)
            /\ pending.pitch = IF pending.rolls.quadruple THEN "Quadruple"
                               ELSE IF pending.rolls.triple THEN "Triple"
                               ELSE IF pending.rolls.double THEN "Double"
                               ELSE "Single"
            /\ pending.ev.tag = "BaseHit"
            /\ pending.ev.bases = HitBases(pending.pitch)
            /\ ~five => ~pending.rolls.quadruple /\ pending.ev.bases # 4

\* In 5-base mode, with a runner on, the quadruple roll and the triple roll
\* both succeeded: the hit is a quadruple.
QuadrupleOverTriple ==
    /\ Pitched
    /\ pending.pitch = "Quadruple"
    /\ pending.rolls.triple
    /\ pending.ev.bases = 4
    /\ Len(game.runners) = 1

\* ------------------------------------------ the draws before the pitch
\* The draws the named provider consumed in the tick.
DrawsOf(t, name) ==
    SumSeq([i \in DOMAIN t.draws |-> IF t.evaluated[i] = name THEN t.draws[i] ELSE 0])

\* The draws consumed before BasePlugin was consulted.
DrawsBeforeBase(t) == SumSeq(SubSeq(t.draws, 1, Len(t.draws) - 1))

QuietMods ==
    {"Elsewhere", "Scattered", "Electric", "DebtU", "RefinancedDebt", "ConsolidatedDebt",
     "FriendOfCrows", "Mild", "Charm", "Magmatic"}

\* A tick that reached the pitch in Sun weather, with empty bases and none
\* of the modifiers that make a provider roll.
QuietPitch ==
    /\ Pitched
    /\ game.weather = "Sun"
    /\ BREmpty(game.runners)
    /\ \A m \in QuietMods :
          /\ \A p \in DOMAIN world.mods : ~PlayerHas(world, p, m)
          /\ \A side \in Sides : ~TeamHas(world, side, m)

\* C31 as stated: in a quiet tick that reaches the pitch exactly three draws
\* are consumed before the strike roll: the party roll, the steal-defender
\* roll and the mild roll.
ThreeDrawsBeforeThePitch == QuietPitch => DrawsBeforeBase(pending) = 3

\* C31, amended: in a quiet tick that reaches the pitch the steal-defender
\* roll and the mild roll are each consumed, and the party roll too, with
\* the roll that picks the partying side when the party roll succeeds: three
\* draws, or four, before the strike roll, and none by another provider.
DrawsBeforeThePitchThreeOrFour ==
    QuietPitch =>
        /\ DrawsOf(pending, "Party") \in {1, 2}
        /\ DrawsOf(pending, "Stealing") = 1
        /\ DrawsOf(pending, "Mod") = 1
        /\ DrawsBeforeBase(pending) = DrawsOf(pending, "Party") + 2

\* A quiet pitch before which three providers rolled and yielded nothing.
QuietPitchAfterThreeDraws ==
    /\ QuietPitch
    /\ DrawsOf(pending, "Party") = 1
    /\ DrawsBeforeBase(pending) = 3
    /\ pending.ev.tag = "Ball"

\* ------------------------------------------ outs, balls and strikes
OutAddingTags ==
    {"Strikeout", "CharmStrikeout", "GroundOut", "Flyout", "FieldersChoice",
     "CaughtStealing", "CrowAmbush"}

\* The siphon effect of the event Sim::next returned, 9 when it is no
\* Blooddrain.
PendingSiphonEffect ==
    IF pending.ev.tag = "Blooddrain" THEN pending.ev.siphon_effect ELSE 9

\* C32: in every reachable state 0 <= outs <= 3; a DoublePlay is only
\* produced with fewer than 2 outs, every other event that adds an out (a
\* Blooddrain with siphon effect 0 among them) with fewer than 3, and a
\* Blooddrain that removes an out only with outs > 0.
OutsStayWithinTheHalf ==
    /\ game.outs \in 0..MaxOuts
    /\ pending.ev.tag = "DoublePlay" => game.outs < 2
    /\ pending.ev.tag \in OutAddingTags \/ PendingSiphonEffect = 0 => game.outs < MaxOuts
    /\ PendingSiphonEffect = 1 => game.outs > 0

\* The siphon on the mound took the third out of the half.
SiphonedTheThirdOut ==
    /\ pending = Idle
    /\ EventsLen(game.events) > 0
    /\ EventsLast(game.events) = "Blooddrain"
    /\ game.outs = MaxOuts

\* C33: in every reachable state balls >= 0 and 0 <= strikes < the strike
\* threshold; a Zap and a Blooddrain that removes a ball are only produced
\* when the count they take from is above 0.
CountNeverNegativeStrikesBelowThreshold ==
    /\ game.balls >= 0
    /\ game.strikes >= 0
    /\ game.strikes < GetMaxStrikes(game, world)
    /\ pending.ev.tag = "Zap" =>
           IF pending.ev.batter THEN game.strikes > 0 ELSE game.balls > 0
    /\ PendingSiphonEffect = 2 => game.balls > 0

\* A zap took the only strike off the batter.
ZappedTheStrikeAway ==
    /\ pending = Idle
    /\ EventsLen(game.events) > 0
    /\ EventsLast(game.events) = "Zap"
    /\ game.strikes = 0
    /\ game.balls = 1

\* C34: in every reachable state the ball count is below the walk threshold
\* (get_max_balls), for the threshold of 4 and for the reduced threshold of
\* 3: no event, MildPitch included, leaves balls at or above the threshold
\* without ending the plate appearance.
BallsBelowTheWalkThreshold == game.balls < GetMaxBalls(game, world)

\* ------------------------------------------ incineration and the night shift
\* The players a match refers to as active: the batter and the pitcher of
\* each side.
ActiveRefs(g) == {g.sb[s].batter : s \in Sides} \cup {g.sb[s].pitcher : s \in Sides}

\* C35: after an Incineration is applied the target is no longer the active
\* batter or the active pitcher of either side: a reference that named the
\* target names the replacement.
IncineratedPlayerLeavesTheMatch ==
    [][Applied /\ pending.ev.tag = "Incineration" =>
          /\ pending.ev.target \notin ActiveRefs(game')
          /\ \A s \in Sides :
                /\ game.sb[s].batter = pending.ev.target =>
                       game'.sb[s].batter \notin ActiveRefs(game) \cup {NoPlayer}
                /\ game.sb[s].pitcher = pending.ev.target =>
                       game'.sb[s].pitcher \notin ActiveRefs(game) \cup {NoPlayer}]_vars

\* The same, for an incinerated batter alone.
IncineratedBatterLeavesThePlate ==
    [][Applied /\ pending.ev.tag = "Incineration" /\ Batter(game) = pending.ev.target =>
          /\ Batter(game') \notin ActiveRefs(game) \cup {NoPlayer}
          /\ Batter(game') \in SeqSet(world'.lineup[BattingSide(game)])
          /\ pending.ev.target \notin SeqSet(world'.lineup[BattingSide(game)])]_vars

\* The players on the rosters of a side: lineup, rotation and shadows, in
\* that order.
Roster(w, side) == w.lineup[side] \o w.rotation[side] \o w.shadows[side]

\* C36: applying NightShift is a swap that loses and duplicates nobody: the
\* replacement takes the lineup or rotation slot that held the active batter
\* or pitcher, the displaced player sits at shadows[replacement_idx], the
\* active reference names the replacement, and lineup, rotation and shadows
\* together hold the same players as before, each once.
NightShiftSwapsLosingNobody ==
    [][Applied /\ pending.ev.tag = "NightShift" =>
          LET ev == pending.ev
              side == IF ev.batter THEN BattingSide(game) ELSE PitchingSide(game)
              active == IF ev.batter THEN Batter(game) ELSE Pitcher(game)
              slots == IF ev.batter THEN world.lineup[side] ELSE world.rotation[side]
              slots2 == IF ev.batter THEN world'.lineup[side] ELSE world'.rotation[side]
          IN  /\ \A i \in DOMAIN slots :
                    slots2[i] = IF slots[i] = active THEN ev.replacement ELSE slots[i]
              /\ \E i \in DOMAIN slots : slots[i] = active
              /\ world'.shadows[side][ev.replacement_idx] = active
              /\ (IF ev.batter THEN Batter(game') ELSE Pitcher(game')) = ev.replacement
              /\ \A s \in Sides :
                    /\ SeqSet(Roster(world', s)) = SeqSet(Roster(world, s))
                    /\ Cardinality(SeqSet(Roster(world', s))) = Len(Roster(world', s))]_vars

\* The same, when the active batter stands in the lineup slot of the batter
\* index (and for every shift of the pitcher).
NightShiftSwapsTheSlotHolder ==
    [][Applied /\ pending.ev.tag = "NightShift"
          /\ (pending.ev.batter =>
                  Batter(game) \in SeqSet(world.lineup[BattingSide(game)])) =>
          \A s \in Sides :
             /\ SeqSet(Roster(world', s)) = SeqSet(Roster(world, s))
             /\ Cardinality(SeqSet(Roster(world', s))) = Len(Roster(world', s))]_vars

\* ------------------------------------------ the end of the match
\* A score above 9.99 runs, in tenths of a run.
TenRuns(g) == {s \in Sides : g.sb[s].score > 99}

\* C37: under Sun2 or BlackHole weather a side whose score exceeds 9.99 gets
\* the Sun2 or BlackHole event before the match can end: GameOver is never
\* produced while a side's score exceeds 9.99.
TenRunsLoopBeforeGameOver ==
    game.weather \in {"Sun2", "BlackHole"} /\ pending.ev.tag = "GameOver" =>
        TenRuns(game) = {}

\* Under Sun2 or BlackHole weather, once the weather provider is consulted
\* with a side above 9.99 it yields the event for that side, the home side
\* first, and applying it takes exactly ten runs off that side.
TenRunsLoopAtTheWeather ==
    [][/\ (game.weather \in {"Sun2", "BlackHole"} /\ pending' # Idle /\ pending = Idle
             /\ pending'.panic = "none" /\ Len(pending'.evaluated) >= 5 /\ TenRuns(game) # {}) =>
              /\ pending'.winner = "Weather"
              /\ pending'.ev.tag = game.weather
              /\ pending'.ev.home_team = ("home" \in TenRuns(game))
       /\ (Applied /\ pending.ev.tag \in {"Sun2", "BlackHole"}) =>
              LET side == IF pending.ev.home_team THEN "home" ELSE "away"
              IN  /\ game'.sb[side].score = game.sb[side].score - 100
                  /\ game'.sb[Other(side)].score = game.sb[Other(side)].score]_vars

\* The match may end at this boundary: the ninth inning or later, the scores
\* apart, the home side ahead or the away side ahead after the bottom half.
MayEnd(g) ==
    /\ g.inning >= 9
    /\ g.sb["home"].score # g.sb["away"].score
    /\ \/ g.sb["home"].score > g.sb["away"].score
       \/ ~g.top /\ g.sb["away"].score > g.sb["home"].score

\* C38: GameOver is produced only with three outs, in the ninth inning or
\* later, with the scores apart: the home side ahead, or the away side ahead
\* after the bottom half.  A tied match is never ended; otherwise the
\* boundary event is InningSwitch, from the top to the bottom of the same
\* inning or from the bottom to the top of the next.
GameOverOnlyOnASettledNinth ==
    /\ (pending # Idle /\ pending.panic = "none" /\ pending.ev.tag = "GameOver") =>
           /\ pending.winner = "InningState"
           /\ game.outs >= 3
           /\ MayEnd(game)
    /\ (pending # Idle /\ pending.panic = "none" /\ pending.winner = "InningState") =>
           /\ game.outs >= 3
           /\ pending.ev.tag \in {"GameOver", "InningSwitch"}
           /\ pending.ev.tag = "InningSwitch" =>
                  /\ ~MayEnd(game)
                  /\ pending.ev.inning = (IF game.top THEN game.inning ELSE game.inning + 1)
                  /\ pending.ev.top = ~game.top

\* The home side is ahead after the top of the ninth and the match ends there.
GameOverAfterTheTopOfTheNinth ==
    /\ pending # Idle /\ pending.ev.tag = "GameOver"
    /\ game.top /\ game.inning = 9
    /\ game.sb["home"].score > game.sb["away"].score

\* BatterStatePlugin finds no active batter and does not take the tick for a
\* side's first batter: it looks up the previous batter at batter_index - 1.
LooksUpThePreviousBatter(g) ==
    /\ Batter(g) = NoPlayer
    /\ g.started
    /\ ~(g.sb[BattingSide(g)].batter_index = 0 /\ g.inning = 1
           /\ EventsLast(g.events) = "InningSwitch")

\* C39: whenever BatterStatePlugin looks up the previous batter at
\* (batter_index - 1) mod the lineup length, batter_index is at least 1: the
\* unsigned subtraction never underflows, a side's first plate appearance
\* after a Salmon or a TripleThreatDeactivation included.
PreviousBatterLookupNeverUnderflows ==
    /\ (pending # Idle /\ pending.winner = "BatterState") =>
           /\ pending.panic = "none"
           /\ LooksUpThePreviousBatter(game) => game.sb[BattingSide(game)].batter_index >= 1
    /\ (pending # Idle /\ pending.ev.tag = "Reverberating") =>
           game.sb[BattingSide(game)].batter_index >= 1

\* The salmon swam upstream after the inning switch, and BatterStatePlugin
\* looks up the previous batter for the plate appearance that follows.
PreviousBatterLookedUpAfterSalmon ==
    /\ pending # Idle /\ pending.winner = "BatterState"
    /\ game.started /\ EventsLast(game.events) = "Salmon"
    /\ LooksUpThePreviousBatter(game)

\* ------------------------------------------------- recoveries in a row
\* The tick yields the recovery event tag right after one was applied.
RecoveryRepeats(tag) ==
    /\ pending # Idle /\ pending.panic = "none"
    /\ pending.ev.tag = tag
    /\ game.events # <<>> /\ EventsLast(game.events) = tag

\* C40: the Elsewhere provider never rolls the same recovery event twice in
\* a row: no ElsewhereReturn on the tick right after an ElsewhereReturn was
\* applied, no Unscatter on the tick right after an Unscatter was applied.
RecoveryNeverRollsTwiceInARow ==
    ~RecoveryRepeats("ElsewhereReturn") /\ ~RecoveryRepeats("Unscatter")

\* The ElsewhereReturn half: the guard compares with the tag the event is
\* logged under.
ElsewhereReturnNeverRollsTwiceInARow == ~RecoveryRepeats("ElsewhereReturn")

=============================================================================
